---- MODULE Spec2Model ----
(***************************************************************************)
(* Verification model of abTEM's axis metadata (abtem/core/axes.py) and    *)
(* measurement containers (abtem/measure/measure.py).                      *)
(*                                                                         *)
(* Python objects are modelled as records.  An axis is a record holding    *)
(* its class name and every dataclass field of the hierarchy; a field a    *)
(* class does not declare stays at a neutral value and is never read for   *)
(* that class (Fields(cls) lists the declared ones).  Floats are small     *)
(* integers, None for a point is the empty tuple.                          *)
(***************************************************************************)
EXTENDS Integers, Sequences, FiniteSets, TLC

\* ------------------------------------------------------------------------
\* Bounds of the model
\* ------------------------------------------------------------------------
\* longest values tuple of an OrdinalAxis
MaxLen == 2
\* most ensemble axes of a constructed measurement
MaxEnsemble == 2
\* longest axes metadata list followed
MaxMetadata == 4

VARIABLES
    a,        \* the axis an axis operation is called on (self)
    axres,    \* outcome of the axis operation applied to a
    m,        \* the measurement at hand
    mres,     \* the last operation applied to a measurement and its outcome
    data,     \* the content of an array that is reduced, as its rows along axis 0
    red,      \* the reduction applied to data and the array it gave
    call,     \* a function or property under test: its name and its arguments
    ret,      \* what call gave
    store,    \* the zarr store a measurement is written to
    heap      \* the objects in memory, for the operations followed by reference

vars == <<a, axres, m, mres, data, red, call, ret, store, heap>>

\* a store nothing was written to
EmptyStore == [written |-> {}]

\* no object is in memory
EmptyHeap == <<>>

\* no function is called
NoCall == [f |-> "none"]
NoRet == [status |-> "none"]

\* ------------------------------------------------------------------------
\* axes.py: the class hierarchy
\* ------------------------------------------------------------------------
LinearClasses == {"LinearAxis", "RealSpaceAxis", "FourierSpaceAxis", "ScanAxis"}

OrdinalClasses == {"OrdinalAxis", "NonLinearAxis", "TiltAxis", "ThicknessAxis",
                   "ParameterSeriesAxis", "PositionsAxis", "FrozenPhononsAxis",
                   "PrismPlaneWavesAxis"}

AxisClasses == {"AxisMetadata", "UnknownAxis", "SampleAxis"} \cup LinearClasses \cup OrdinalClasses

\* the base class each dataclass is declared with
Parent(cls) ==
    CASE cls \in {"UnknownAxis", "SampleAxis", "LinearAxis", "OrdinalAxis"} -> "AxisMetadata"
      [] cls \in {"RealSpaceAxis", "FourierSpaceAxis"} -> "LinearAxis"
      [] cls = "ScanAxis" -> "RealSpaceAxis"
      [] cls \in {"NonLinearAxis", "FrozenPhononsAxis", "PrismPlaneWavesAxis"} -> "OrdinalAxis"
      [] cls \in {"TiltAxis", "ThicknessAxis", "ParameterSeriesAxis", "PositionsAxis"} -> "NonLinearAxis"
      [] OTHER -> "object"

RECURSIVE IsSubclass(_, _)
\* isinstance(x, base) for an x of class cls
IsSubclass(cls, base) ==
    IF cls = base THEN TRUE
    ELSE IF Parent(cls) = "object" THEN FALSE
    ELSE IsSubclass(Parent(cls), base)

RECURSIVE Fields(_)
\* dataclasses.fields of a class: its own declarations and the inherited ones
Fields(cls) ==
    CASE cls = "AxisMetadata" -> {"_concatenate", "label"}
      [] cls = "LinearAxis" -> Fields("AxisMetadata") \cup {"sampling", "offset", "units", "_ensemble_mean"}
      [] cls = "RealSpaceAxis" -> Fields("LinearAxis") \cup {"endpoint"}
      [] cls = "FourierSpaceAxis" -> Fields("LinearAxis") \cup {"fftshift"}
      [] cls = "ScanAxis" -> Fields("RealSpaceAxis") \cup {"start", "end"}
      [] cls = "OrdinalAxis" -> Fields("AxisMetadata") \cup {"values"}
      [] cls = "NonLinearAxis" -> Fields("OrdinalAxis") \cup {"units"}
      [] cls = "TiltAxis" -> Fields("NonLinearAxis") \cup {"direction", "_ensemble_mean"}
      [] cls \in {"ParameterSeriesAxis"} -> Fields("NonLinearAxis") \cup {"_ensemble_mean"}
      [] cls = "FrozenPhononsAxis" -> Fields("OrdinalAxis") \cup {"_ensemble_mean"}
      [] cls \in {"UnknownAxis", "SampleAxis"} -> Fields("AxisMetadata")
      [] cls \in {"ThicknessAxis", "PositionsAxis"} -> Fields("NonLinearAxis")
      [] cls = "PrismPlaneWavesAxis" -> Fields("OrdinalAxis")
      [] OTHER -> {}

\* the value of a start or end field of a ScanAxis: None (the default), a
\* tuple of coordinates or a numpy array of them
NonePoint == [py |-> "None", elems |-> <<>>]
TuplePoint(elems) == [py |-> "tuple", elems |-> elems]
ArrayPoint(elems) == [py |-> "ndarray", elems |-> elems]

\* every field at its neutral value; NoAxis stands for "no axis object"
\* (type is the 'type' key of the plain dicts measure.py uses as base axes
\* metadata, see BaseAxisDict; no axis class has it)
NoAxis ==
    [cls |-> "None", _concatenate |-> TRUE, label |-> "", sampling |-> 0, offset |-> 0,
     units |-> "", _ensemble_mean |-> FALSE, endpoint |-> FALSE, fftshift |-> FALSE,
     start |-> NonePoint, end |-> NonePoint, values |-> <<>>, direction |-> "", type |-> ""]

\* the field defaults the dataclass declarations give
DefaultLabel(cls) ==
    CASE cls = "ThicknessAxis" -> "thickness"
      [] cls = "ParameterSeriesAxis" -> ""
      [] cls = "PositionsAxis" -> "x, y"
      [] cls = "FrozenPhononsAxis" -> "Frozen phonons"
      [] OTHER -> "unknown"

DefaultUnits(cls) ==
    CASE cls \in LinearClasses -> "pixels"
      [] cls = "TiltAxis" -> "mrad"
      [] cls \in {"ThicknessAxis", "PositionsAxis"} -> "A"
      [] cls \in {"NonLinearAxis", "ParameterSeriesAxis"} -> "unknown"
      [] OTHER -> ""

\* cls() with no arguments
DefaultAxis(cls) ==
    [NoAxis EXCEPT !.cls = cls,
                   !._concatenate = (cls # "FourierSpaceAxis"),
                   !.label = DefaultLabel(cls),
                   !.sampling = IF cls \in LinearClasses THEN 1 ELSE 0,
                   !.units = DefaultUnits(cls),
                   !.endpoint = (cls \in {"RealSpaceAxis", "ScanAxis"}),
                   !.fftshift = (cls = "FourierSpaceAxis"),
                   !.direction = IF cls = "TiltAxis" THEN "x" ELSE ""]

\* the value of field f of axis x
FieldOf(x, f) ==
    CASE f = "_concatenate" -> x._concatenate
      [] f = "label" -> x.label
      [] f = "sampling" -> x.sampling
      [] f = "offset" -> x.offset
      [] f = "units" -> x.units
      [] f = "_ensemble_mean" -> x._ensemble_mean
      [] f = "endpoint" -> x.endpoint
      [] f = "fftshift" -> x.fftshift
      [] f = "start" -> x.start
      [] f = "end" -> x.end
      [] f = "values" -> x.values
      [] f = "direction" -> x.direction

\* abtem.core.utils.safe_equality(a, b, exclude): b is an instance of a's
\* class and every field of a outside exclude has an equal value in b
safe_equality(x, y, exclude) ==
    /\ y.cls \in AxisClasses
    /\ IsSubclass(y.cls, x.cls)
    /\ \A f \in Fields(x.cls) \ exclude : FieldOf(x, f) = FieldOf(y, f)

\* AxisMetadata.__eq__
AxisEq(x, y) == safe_equality(x, y, {})

\* dataclasses.asdict(x): the declared fields of x's class with (copies of)
\* their values
asdict(x) == [f \in Fields(x.cls) |-> FieldOf(x, f)]

\* keyword argument f of a constructor call, the class default when absent
KwArg(cls, kwargs, f) ==
    IF f \in DOMAIN kwargs THEN kwargs[f] ELSE FieldOf(DefaultAxis(cls), f)

\* cls(**kwargs); OrdinalAxis.__post_init__ leaves a tuple of values as it is
Construct(cls, kwargs) ==
    [cls |-> cls,
     _concatenate |-> KwArg(cls, kwargs, "_concatenate"),
     label |-> KwArg(cls, kwargs, "label"),
     sampling |-> KwArg(cls, kwargs, "sampling"),
     offset |-> KwArg(cls, kwargs, "offset"),
     units |-> KwArg(cls, kwargs, "units"),
     _ensemble_mean |-> KwArg(cls, kwargs, "_ensemble_mean"),
     endpoint |-> KwArg(cls, kwargs, "endpoint"),
     fftshift |-> KwArg(cls, kwargs, "fftshift"),
     start |-> KwArg(cls, kwargs, "start"),
     end |-> KwArg(cls, kwargs, "end"),
     values |-> KwArg(cls, kwargs, "values"),
     direction |-> KwArg(cls, kwargs, "direction"),
     type |-> ""]

\* ------------------------------------------------------------------------
\* Python and NumPy indexing
\* ------------------------------------------------------------------------
\* whether i is a valid index of a sequence of length n (negative ones count
\* from the end)
ValidIndex(n, i) == -n <= i /\ i < n

\* seq[i] for a valid Python index i
PyIndex(seq, i) == IF i >= 0 THEN seq[i + 1] ELSE seq[Len(seq) + i + 1]

\* a bound of slice(lo, hi) clipped to a sequence of length n
SliceBound(x, n) ==
    IF x < 0 THEN (IF x + n < 0 THEN 0 ELSE x + n)
    ELSE (IF x > n THEN n ELSE x)

\* seq[lo:hi]
PySlice(seq, lo, hi) ==
    SubSeq(seq, SliceBound(lo, Len(seq)) + 1, SliceBound(hi, Len(seq)))

RECURSIVE MaskSelect(_, _)
\* seq[mask] for a boolean mask as long as seq
MaskSelect(seq, mask) ==
    IF seq = <<>> THEN <<>>
    ELSE (IF Head(mask) THEN <<Head(seq)>> ELSE <<>>) \o MaskSelect(Tail(seq), Tail(mask))

\* an index expression: a Number, slice(lo, hi), a list of indices or a
\* boolean mask
Scalar(i) == [kind |-> "number", i |-> i, lo |-> 0, hi |-> 0, idx |-> <<>>, mask |-> <<>>]
Slice(lo, hi) == [kind |-> "slice", i |-> 0, lo |-> lo, hi |-> hi, idx |-> <<>>, mask |-> <<>>]
IndexList(idx) == [kind |-> "list", i |-> 0, lo |-> 0, hi |-> 0, idx |-> idx, mask |-> <<>>]
Mask(mask) == [kind |-> "mask", i |-> 0, lo |-> 0, hi |-> 0, idx |-> <<>>, mask |-> mask]

\* whether array[item] is defined on a one-dimensional array of length n
ValidSelector(n, item) ==
    CASE item.kind = "number" -> ValidIndex(n, item.i)
      [] item.kind = "slice" -> TRUE
      [] item.kind = "list" -> \A k \in 1..Len(item.idx) : ValidIndex(n, item.idx[k])
      [] item.kind = "mask" -> Len(item.mask) = n

\* array[item] for a non-scalar item on a one-dimensional array
ArraySelect(seq, item) ==
    CASE item.kind = "slice" -> PySlice(seq, item.lo, item.hi)
      [] item.kind = "list" -> [k \in 1..Len(item.idx) |-> PyIndex(seq, item.idx[k])]
      [] item.kind = "mask" -> MaskSelect(seq, item.mask)

\* ------------------------------------------------------------------------
\* axes.py: operations of an axis
\* ------------------------------------------------------------------------
\* what a call gives: status "ok" or the exception raised; ref tells whether
\* the returned object is self or a newly constructed one; val is the
\* returned axis, md a returned dict as its set of (key, value) items
Returned(ref, val) == [status |-> "ok", ref |-> ref, val |-> val, md |-> {}]
ReturnedDict(md) == [status |-> "ok", ref |-> "dict", val |-> NoAxis, md |-> md]
Raised(exc) == [status |-> exc, ref |-> "none", val |-> NoAxis, md |-> {}]

\* LinearAxis.concatenate without the test of the _concatenate flag
LinearAxis_concatenate_unguarded(self, other) ==
    IF ~AxisEq(self, other) THEN Raised("RuntimeError")
    ELSE Returned("self", self)

\* LinearAxis.concatenate
LinearAxis_concatenate(self, other) ==
    IF ~self._concatenate THEN Raised("RuntimeError")
    ELSE IF ~AxisEq(self, other) THEN Raised("RuntimeError")
    ELSE Returned("self", self)

\* OrdinalAxis.concatenate putting the other axis' values first
OrdinalAxis_concatenate_swapped(self, other) ==
    IF ~safe_equality(self, other, {"values"}) THEN Raised("RuntimeError")
    ELSE LET kwargs == asdict(self)
         IN  Returned("new",
                 Construct(self.cls, [kwargs EXCEPT !["values"] = other.values \o kwargs["values"]]))

\* OrdinalAxis.concatenate
OrdinalAxis_concatenate(self, other) ==
    IF ~safe_equality(self, other, {"values"}) THEN Raised("RuntimeError")
    ELSE LET kwargs == asdict(self)
         IN  Returned("new",
                 Construct(self.cls, [kwargs EXCEPT !["values"] = kwargs["values"] \o other.values]))

\* x.concatenate(other) by method resolution: AxisMetadata, UnknownAxis and
\* SampleAxis define no concatenate
concatenate(self, other) ==
    IF IsSubclass(self.cls, "OrdinalAxis") THEN OrdinalAxis_concatenate(self, other)
    ELSE IF IsSubclass(self.cls, "LinearAxis") THEN LinearAxis_concatenate(self, other)
    ELSE Raised("AttributeError")

\* AxisMetadata.item_metadata
AxisMetadata_item_metadata(self, item) == ReturnedDict({})

\* OrdinalAxis.item_metadata keyed by the class default label
OrdinalAxis_item_metadata_default_label(self, item) ==
    IF ~ValidIndex(Len(self.values), item) THEN Raised("IndexError")
    ELSE ReturnedDict({<<DefaultLabel(self.cls), PyIndex(self.values, item)>>})

\* OrdinalAxis.item_metadata
OrdinalAxis_item_metadata(self, item) ==
    IF ~ValidIndex(Len(self.values), item) THEN Raised("IndexError")
    ELSE ReturnedDict({<<self.label, PyIndex(self.values, item)>>})

item_metadata(self, item) ==
    IF IsSubclass(self.cls, "OrdinalAxis") THEN OrdinalAxis_item_metadata(self, item)
    ELSE AxisMetadata_item_metadata(self, item)

\* AxisMetadata.__getitem__
AxisMetadata_getitem(self, item) == Returned("self", self)

\* OrdinalAxis.__getitem__ whose array branch selects nothing away: the
\* values are passed on whole
OrdinalAxis_getitem_unselected(self, item) ==
    LET kwargs == asdict(self)
    IN  IF ~ValidSelector(Len(kwargs["values"]), item) THEN Raised("IndexError")
        ELSE IF item.kind = "number"
        THEN Returned("new",
                 Construct(self.cls, [kwargs EXCEPT !["values"] = <<PyIndex(kwargs["values"], item.i)>>]))
        ELSE Returned("new", Construct(self.cls, kwargs))

\* OrdinalAxis.__getitem__
OrdinalAxis_getitem(self, item) ==
    LET kwargs == asdict(self)
    IN  IF ~ValidSelector(Len(kwargs["values"]), item) THEN Raised("IndexError")
        ELSE IF item.kind = "number"
        THEN Returned("new",
                 Construct(self.cls, [kwargs EXCEPT !["values"] = <<PyIndex(kwargs["values"], item.i)>>]))
        ELSE Returned("new",
                 Construct(self.cls, [kwargs EXCEPT !["values"] = ArraySelect(kwargs["values"], item)]))

getitem(self, item) ==
    IF IsSubclass(self.cls, "OrdinalAxis") THEN OrdinalAxis_getitem(self, item)
    ELSE AxisMetadata_getitem(self, item)

\* ------------------------------------------------------------------------
\* axes.py: serialization of an axis
\* ------------------------------------------------------------------------
\* the fields that may hold a numpy array
PointFields == {"start", "end"}

\* tuple(value.tolist()) for an array, the value itself otherwise
ToTuple(key, value) ==
    IF key \in PointFields /\ value.py = "ndarray" THEN TuplePoint(value.elems) ELSE value

\* axis_to_dict: the dict as a function from its keys
axis_to_dict(axis) ==
    LET d == asdict(axis)
    IN  [key \in DOMAIN d \cup {"type"} |->
            IF key = "type" THEN axis.cls ELSE ToTuple(key, d[key])]

\* the names bound in the module namespace of axes.py besides the axis
\* classes: classes that are no axis and take no constructor arguments, and
\* names whose call raises TypeError (modules, typing aliases, functions
\* called without their positional arguments)
OtherClasses == {"HasAxes", "Number"}
Uncallable == {"dataclasses", "np", "List", "Tuple", "safe_equality", "axis_to_dict",
               "axis_from_dict"}
ModuleGlobals == AxisClasses \cup OtherClasses \cup Uncallable \cup {"dataclass"}

\* what a call of axis_from_dict gives: obj is the kind of object returned
Decoded(obj, val) == [status |-> "ok", obj |-> obj, val |-> val]
DecodeRaised(exc) == [status |-> exc, obj |-> "none", val |-> NoAxis]

\* axis_from_dict: globals()[d['type']] called with the other items
axis_from_dict(d) ==
    IF "type" \notin DOMAIN d THEN DecodeRaised("KeyError")
    ELSE IF d["type"] \notin ModuleGlobals THEN DecodeRaised("KeyError")
    ELSE LET cls == d["type"]
             kwargs == [key \in DOMAIN d \ {"type"} |-> d[key]]
         IN  IF cls \in AxisClasses
             THEN IF DOMAIN kwargs \subseteq Fields(cls)
                  THEN Decoded("axis", Construct(cls, kwargs))
                  ELSE DecodeRaised("TypeError")
             ELSE IF cls \in OtherClasses /\ DOMAIN kwargs = {}
             THEN Decoded(cls, NoAxis)
             ELSE IF cls = "dataclass" /\ DOMAIN kwargs = {}
             THEN Decoded("function", NoAxis)
             ELSE DecodeRaised("TypeError")

\* ------------------------------------------------------------------------
\* measure.py: measurements
\* ------------------------------------------------------------------------
\* A measurement is a record: its class (kind), its array (by shape), the
\* list _axes_metadata, the value of _metadata and the parameters its class
\* keeps; a parameter a class does not keep stays at a neutral value.
\* A Python value that is None, a dict (its set of items) or a list:
PyNone == [type |-> "None", dict |-> {}, list |-> <<>>]
PyDict(d) == [type |-> "dict", dict |-> d, list |-> <<>>]
PyList(l) == [type |-> "list", dict |-> {}, list |-> l]

MeasurementKinds == {"Images", "LineProfiles", "DiffractionPatterns", "PolarMeasurements"}

NoMeasurement ==
    [kind |-> "None", array |-> [shape |-> <<>>], _axes_metadata |-> <<>>, _metadata |-> PyNone,
     sampling |-> <<>>, angular_sampling |-> <<>>, fftshift |-> FALSE,
     radial_sampling |-> <<0, 1>>, azimuthal_sampling |-> <<0, 1>>,
     radial_offset |-> 0, azimuthal_offset |-> 0, start |-> <<>>, end |-> <<>>]

\* Images.__init__
Images(array, sampling, axes_metadata, metadata) ==
    [NoMeasurement EXCEPT !.kind = "Images", !.array = array, !.sampling = sampling,
                          !._axes_metadata = axes_metadata, !._metadata = metadata]

\* LineProfiles.__init__ with start and end given
LineProfiles(array, start, end, axes_metadata, metadata) ==
    [NoMeasurement EXCEPT !.kind = "LineProfiles", !.array = array, !.start = start, !.end = end,
                          !._axes_metadata = axes_metadata, !._metadata = metadata]

\* DiffractionPatterns.__init__
DiffractionPatterns(array, angular_sampling, fftshift, axes_metadata, metadata) ==
    [NoMeasurement EXCEPT !.kind = "DiffractionPatterns", !.array = array,
                          !.angular_sampling = angular_sampling, !.fftshift = fftshift,
                          !._axes_metadata = axes_metadata, !._metadata = metadata]

\* PolarMeasurements.__init__; the samplings are fractions <<num, den>>, the
\* azimuthal one in units of pi
PolarMeasurements(array, radial_sampling, azimuthal_sampling, radial_offset, azimuthal_offset, axes_metadata, metadata) ==
    [NoMeasurement EXCEPT !.kind = "PolarMeasurements", !.array = array,
                          !.radial_sampling = radial_sampling,
                          !.azimuthal_sampling = azimuthal_sampling,
                          !.radial_offset = radial_offset, !.azimuthal_offset = azimuthal_offset,
                          !._axes_metadata = axes_metadata, !._metadata = metadata]

\* AbstractMeasurement.dimensions
dimensions(self) == Len(self.array.shape)

\* AbstractMeasurement.base_dimensions: len(self._base_axes), the tuple each
\* class hands to AbstractMeasurement.__init__
base_dimensions(self) == IF self.kind = "LineProfiles" THEN 1 ELSE 2

\* AbstractMeasurement.collection_dimensions
collection_dimensions(self) == dimensions(self) - base_dimensions(self)

\* AbstractMeasurement.base_axes: _base_axes counted from the front
base_axes(self) == {dimensions(self) - k : k \in 1..base_dimensions(self)}

\* AbstractMeasurement.collection_axes: tuple(range(collection_dimensions))
collection_axes(self) == 0..(collection_dimensions(self) - 1)

\* AbstractMeasurement._check_is_base_axes
_check_is_base_axes(self, axes) == axes \cap base_axes(self) # {}

\* one of the dicts Images and DiffractionPatterns give as base axes metadata
BaseAxisDict(label, type, sampling) ==
    [NoAxis EXCEPT !.cls = "dict", !.label = label, !.type = type, !.sampling = sampling]

\* the base_axes_metadata property: Images and DiffractionPatterns give two
\* dicts, PolarMeasurements the empty list; on LineProfiles it is a plain
\* method, so the attribute is a bound method and no list
base_axes_metadata(self) ==
    CASE self.kind = "Images" ->
            <<BaseAxisDict("x", "real-space", self.sampling[1]),
              BaseAxisDict("y", "real-space", self.sampling[2])>>
      [] self.kind = "DiffractionPatterns" ->
            <<BaseAxisDict("x", "fourier_space", self.angular_sampling[1]),
              BaseAxisDict("x", "fourier_space", self.angular_sampling[2])>>
      [] OTHER -> <<>>

\* what evaluating self.axes_metadata raises, "none" when it gives a list:
\* on LineProfiles a list is added to a bound method; on Images the dicts
\* read sampling[0] and sampling[1]
axes_metadata_error(self) ==
    CASE self.kind = "LineProfiles" -> "TypeError"
      [] self.kind = "Images" /\ Len(self.sampling) < 2 -> "IndexError"
      [] OTHER -> "none"

\* AbstractMeasurement.axes_metadata
axes_metadata(self) == self._axes_metadata \o base_axes_metadata(self)

RECURSIVE RemoveAt(_, _, _)
\* the entries of seq whose 0-based position, counted from pos, is not in axes
RemoveAt(seq, axes, pos) ==
    IF seq = <<>> THEN <<>>
    ELSE (IF pos \in axes THEN <<>> ELSE <<Head(seq)>>) \o RemoveAt(Tail(seq), axes, pos + 1)

\* HasAxesMetadata._remove_axes_metadata: the ensemble axes metadata without
\* the entries at the given axes
_remove_axes_metadata(self, axes) == RemoveAt(self._axes_metadata, axes, 0)

\* what a call on a measurement gives: status "ok" or the exception raised;
\* val the measurement returned (NoMeasurement when the call returns None);
\* array tells whether val's array is the operand's array object ("same"), a
\* copy of it ("copy") or a newly computed array ("new")
MReturned(val, array) == [status |-> "ok", val |-> val, array |-> array]
MReturnedNone == [status |-> "ok", val |-> NoMeasurement, array |-> "none"]
MRaised(exc) == [status |-> exc, val |-> NoMeasurement, array |-> "none"]

\* the record of the last call on a measurement; NoOp when none is pending
NoOp == [op |-> "none", arg |-> [none |-> TRUE],
         out |-> [status |-> "none", val |-> NoMeasurement, array |-> "none"]]

\* Images.copy
Images_copy(self, copy_array) ==
    IF axes_metadata_error(self) # "none" THEN MRaised(axes_metadata_error(self))
    ELSE
    MReturned(Images(self.array, self.sampling, axes_metadata(self), PyNone),
              IF copy_array THEN "copy" ELSE "same")

\* DiffractionPatterns.copy
DiffractionPatterns_copy(self, copy_array) ==
    MReturned(DiffractionPatterns(self.array, self.angular_sampling, self.fftshift,
                                  axes_metadata(self), PyList(axes_metadata(self))),
              IF copy_array THEN "copy" ELSE "same")

\* PolarMeasurements.copy: the constructor is called without its required
\* radial_sampling and azimuthal_sampling
PolarMeasurements_copy(self, copy_array) == MRaised("TypeError")

\* LineProfiles.copy takes no argument and its body is pass
LineProfiles_copy(self) == MReturnedNone

\* self.copy(...) by method resolution; copy_array is "True", "False" or
\* "omitted"
copy(self, copy_array) ==
    CASE self.kind = "Images" -> Images_copy(self, copy_array # "False")
      [] self.kind = "DiffractionPatterns" -> DiffractionPatterns_copy(self, copy_array # "False")
      [] self.kind = "PolarMeasurements" -> PolarMeasurements_copy(self, copy_array # "False")
      [] self.kind = "LineProfiles" ->
            IF copy_array = "omitted" THEN LineProfiles_copy(self) ELSE MRaised("TypeError")

\* the function each reduction method hands to _reduction
reduction_func(method) ==
    CASE method = "mean" -> "da.mean"
      [] method = "sum" -> "da.mean"
      [] method = "std" -> "da.std"

\* the shape of reduction_func(array, axes)
ReducedShape(shape, axes) == RemoveAt(shape, axes, 0)

\* AbstractMeasurement._reduction; axes is [given, set]: None or a tuple of
\* axes
_reduction(self, func, axes) ==
    LET ax == IF axes.given THEN axes.set ELSE collection_axes(self)
    IN  IF _check_is_base_axes(self, ax) THEN MRaised("RuntimeError: base axes cannot be reduced")
        ELSE LET metadata == _remove_axes_metadata(self, ax)
                 new_copy == copy(self, "False")
             IN  IF new_copy.status # "ok" THEN new_copy
                 ELSE MReturned([new_copy.val EXCEPT
                                    !.array = [shape |-> ReducedShape(new_copy.val.array.shape, ax)],
                                    !._axes_metadata = metadata],
                                "new")

\* an index expression given to a measurement: a Number, a tuple of
\* components, or a bare slice or list (a single non-tuple expression)
NumberItem(i) == [form |-> "number", comps |-> <<Scalar(i)>>]
TupleItem(comps) == [form |-> "tuple", comps |-> comps]
BareItem(sel) == [form |-> "bare", comps |-> <<sel>>]

\* the length array[item] has along a dimension of length n it does not drop
SelectedLength(n, item) == Len(ArraySelect([k \in 1..n |-> k], item))

RECURSIVE IndexedShape(_, _)
\* the shape of array[comps] for a tuple of components, each valid for its
\* dimension: a Number drops the dimension, another component narrows it
IndexedShape(shape, comps) ==
    IF comps = <<>> THEN shape
    ELSE (IF Head(comps).kind = "number" THEN <<>>
          ELSE <<SelectedLength(Head(shape), Head(comps))>>)
         \o IndexedShape(Tail(shape), Tail(comps))

\* whether array[comps] is defined: no more components than dimensions and
\* each valid for its dimension
ValidIndexing(shape, comps) ==
    /\ Len(comps) <= Len(shape)
    /\ \A k \in 1..Len(comps) : ValidSelector(shape[k], comps[k])

\* the positions enumerate(items) pairs with a Number: the Number
\* components of a tuple; every element of a bare list of indices
removed_axes(items) ==
    IF items.form = "bare"
    THEN {k - 1 : k \in 1..Len(items.comps[1].idx)}
    ELSE {k - 1 : k \in {j \in 1..Len(items.comps) : items.comps[j].kind = "number"}}

\* AbstractMeasurement._get_measurements
_get_measurements(self, items) ==
    LET new_copy == copy(self, "False")
    IN  IF new_copy.status # "ok" THEN new_copy
        ELSE IF ~ValidIndexing(self.array.shape, items.comps) THEN MRaised("IndexError")
        ELSE IF items.form = "bare" /\ items.comps[1].kind = "slice" THEN MRaised("TypeError")
        ELSE IF _check_is_base_axes(self, removed_axes(items))
        THEN MRaised("RuntimeError: base axes cannot be indexed")
        ELSE MReturned([new_copy.val EXCEPT
                           !.array = [shape |-> IndexedShape(self.array.shape, items.comps)],
                           !._axes_metadata = _remove_axes_metadata(self, removed_axes(items))],
                       "new")

\* DiffractionPatterns.__getitem__, the only __getitem__ of a measurement
DiffractionPatterns_getitem(self, items) == _get_measurements(self, items)

\* DiffractionPatterns.max_angles
max_angles(self) ==
    LET n == dimensions(self)
    IN  <<(self.array.shape[n - 1] \div 2) * self.angular_sampling[1],
          (self.array.shape[n] \div 2) * self.angular_sampling[2]>>

\* DiffractionPatterns.fourier_space_extent taking the branch of an even
\* length for every length
fourier_space_extent_as_even(self) ==
    LET n == dimensions(self)
    IN  [k \in 1..2 |->
            <<((-self.array.shape[n - 2 + k]) \div 2) * self.angular_sampling[k],
              (self.array.shape[n - 2 + k] \div 2 - 1) * self.angular_sampling[k]>>]

\* DiffractionPatterns.fourier_space_extent: the list of the two limits
\* (i = -2, -1 index the shape and the two samplings alike)
fourier_space_extent(self) ==
    LET n == dimensions(self)
    IN  [k \in 1..2 |->
            IF self.array.shape[n - 2 + k] % 2 # 0
            THEN <<((-(self.array.shape[n - 2 + k] - 1)) \div 2) * self.angular_sampling[k],
                   ((self.array.shape[n - 2 + k] - 1) \div 2) * self.angular_sampling[k]>>
            ELSE <<((-self.array.shape[n - 2 + k]) \div 2) * self.angular_sampling[k],
                   (self.array.shape[n - 2 + k] \div 2 - 1) * self.angular_sampling[k]>>]

\* DiffractionPatterns._check_max_angle testing the last component only
_check_max_angle_last_only(self, angle) ==
    angle > max_angles(self)[2]

\* DiffractionPatterns._check_max_angle: whether it raises
_check_max_angle(self, angle) ==
    angle > max_angles(self)[1] \/ angle > max_angles(self)[2]

RECURSIVE TrailingScanAxes(_, _)
\* HasAxes.scan_axes, the loop: the number of trailing ScanAxis entries,
\* counted up to 2
TrailingScanAxes(axes, counted) ==
    IF axes = <<>> THEN counted
    ELSE IF ~IsSubclass(axes[Len(axes)].cls, "ScanAxis") \/ counted = 2 THEN counted
    ELSE TrailingScanAxes(SubSeq(axes, 1, Len(axes) - 1), counted + 1)

\* HasAxes.scan_axes over the ensemble axes metadata of a measurement
scan_axes(self) ==
    LET n == TrailingScanAxes(self._axes_metadata, 0)
    IN  [k \in 1..n |-> collection_dimensions(self) - n + k - 1]

\* self.axes_metadata[axis]['sampling'] for a scan axis: a dict gives its
\* 'sampling' entry, a ScanAxis object answers [...] with itself
\* (AxisMetadata.__getitem__)
SamplingEntry(entry) ==
    IF entry.cls = "dict" THEN entry.sampling ELSE entry

\* the shape without its last two dimensions
DropBase(shape) == SubSeq(shape, 1, Len(shape) - 2)

\* DiffractionPatterns.integrate_radial
integrate_radial(self, inner, outer) ==
    IF _check_max_angle(self, outer)
    THEN MRaised("RuntimeError: integration angle exceeds the maximum simulated angle")
    ELSE LET scan == scan_axes(self)
             sampling == [k \in 1..Len(scan) |-> SamplingEntry(axes_metadata(self)[scan[k] + 1])]
             integrated_intensity == [shape |-> DropBase(self.array.shape)]
         IN  IF Len(scan) = 1
             THEN \* LineProfiles.__init__ multiplies len(array) by the sampling,
                  \* here an axis object
                  MRaised("TypeError")
             ELSE MReturned(Images(integrated_intensity, sampling,
                                   SubSeq(axes_metadata(self), 1, Len(axes_metadata(self)) - 2),
                                   PyNone),
                            "new")

\* DiffractionPatterns.polar_binning
polar_binning(self, nbins_radial, nbins_azimuthal, inner, outer, rotation) ==
    IF _check_max_angle(self, outer)
    THEN MRaised("RuntimeError: integration angle exceeds the maximum simulated angle")
    ELSE IF nbins_radial = 0 \/ nbins_azimuthal = 0
    THEN \* (outer - inner) / nbins_radial, 2 * np.pi / nbins_azimuthal
         MRaised("ZeroDivisionError")
    ELSE MReturned(PolarMeasurements(
                       [shape |-> DropBase(self.array.shape) \o <<nbins_radial, nbins_azimuthal>>],
                       <<outer - inner, nbins_radial>>, <<2, nbins_azimuthal>>, inner, rotation,
                       axes_metadata(self), self._metadata),
                   "new")

\* the smaller of two numbers
Min2(x, y) == IF x <= y THEN x ELSE y

\* int(x / y) for y > 0: the quotient truncated toward zero
TruncDiv(x, y) == IF x >= 0 THEN x \div y ELSE -((-x) \div y)

\* DiffractionPatterns.radial_binning; outer is None or a number
radial_binning(self, step_size, inner, outer) ==
    LET outer_angle == IF outer.py = "None" THEN Min2(max_angles(self)[1], max_angles(self)[2])
                       ELSE outer.val[1]
        nbins_radial == TruncDiv(outer_angle - inner, step_size)
    IN  polar_binning(self, nbins_radial, 1, inner, outer_angle, 0)

\* a measurement call that returned a tuple or list of numbers
MReturnedValue(value) ==
    [status |-> "ok", val |-> NoMeasurement, array |-> "none", value |-> value]

\* DiffractionPatterns.block_direct
block_direct(self, radius) ==
    MReturned(DiffractionPatterns([shape |-> self.array.shape], self.angular_sampling,
                                  self.fftshift, axes_metadata(self), self._metadata),
              "new")

\* ------------------------------------------------------------------------
\* measure.py: Images.interpolate, Images.is_compatible, Images.subtract
\* ------------------------------------------------------------------------
\* an optional argument that takes a number or a tuple: None, x or (x, y)
ArgNone == [py |-> "None", val |-> <<>>]
ArgNumber(x) == [py |-> "number", val |-> <<x>>]
ArgTuple(t) == [py |-> "tuple", val |-> t]

\* (x,) * 2 for a Number, the tuple itself otherwise
Twice(arg) == IF arg.py = "number" THEN <<arg.val[1], arg.val[1]>> ELSE arg.val

\* int(np.ceil(l / d)) for positive l and d
CeilDiv(l, d) == (l + d - 1) \div d

\* Images.extent
extent(self) ==
    LET base_shape == SubSeq(self.array.shape, Len(self.array.shape) - 1, Len(self.array.shape))
    IN  <<self.sampling[1] * base_shape[1], self.sampling[2] * base_shape[2]>>

\* a measurement call that returned a bool
MReturnedBool(b) == [status |-> "ok", val |-> NoMeasurement, array |-> "none", bool |-> b]

\* Images.interpolate; the new Images keeps the sampling argument as it
\* stands when the grid comes from gpts (sampling holds its components, none
\* for None)
Images_interpolate(self, sampling, gpts, method, boundary) ==
    IF method = "fft" /\ boundary # "periodic" THEN MRaised("ValueError")
    ELSE IF sampling.py = "None" /\ gpts.py = "None" THEN MRaised("ValueError")
    ELSE LET new_sampling == IF gpts.py = "None" THEN Twice(sampling) ELSE sampling.val
             new_gpts == IF gpts.py = "None"
                         THEN <<CeilDiv(extent(self)[1], new_sampling[1]),
                                CeilDiv(extent(self)[2], new_sampling[2])>>
                         ELSE Twice(gpts)
         IN  MReturned(Images([shape |-> DropBase(self.array.shape) \o new_gpts], new_sampling,
                              SubSeq(axes_metadata(self), 1, Len(axes_metadata(self)) - 2),
                              self._metadata),
                       "new")

\* Images.is_compatible
Images_is_compatible(self, other) ==
    IF self.array.shape # other.array.shape THEN FALSE
    ELSE IF self.sampling # self.sampling THEN FALSE
    ELSE IF axes_metadata(self) # axes_metadata(other) THEN FALSE
    ELSE TRUE

\* the length of dimension k of shape counted from the last, 1 when absent
DimFromEnd(shape, k) == IF k <= Len(shape) THEN shape[Len(shape) - k + 1] ELSE 1

\* whether arrays of the two shapes broadcast against each other
Broadcastable(s1, s2) ==
    \A k \in 1..Len(s1) :
        DimFromEnd(s1, k) = DimFromEnd(s2, k) \/ DimFromEnd(s1, k) = 1 \/ DimFromEnd(s2, k) = 1

\* the shape of the broadcast of two arrays
BroadcastShape(s1, s2) ==
    LET n == IF Len(s1) >= Len(s2) THEN Len(s1) ELSE Len(s2)
    IN  [j \in 1..n |->
            LET k == n - j + 1
            IN  IF DimFromEnd(s1, k) = 1 THEN DimFromEnd(s2, k) ELSE DimFromEnd(s1, k)]

\* Images.subtract: the result of is_compatible is not used; the array
\* subtraction raises ValueError when the shapes do not broadcast
Images_subtract(self, other) ==
    IF ~Broadcastable(self.array.shape, other.array.shape) THEN MRaised("ValueError")
    ELSE MReturned(Images([shape |-> BroadcastShape(self.array.shape, other.array.shape)],
                          self.sampling, axes_metadata(self), self._metadata),
                   "new")

\* ------------------------------------------------------------------------
\* measure.py: the pixels of a diffraction pattern under block_direct
\* ------------------------------------------------------------------------
\* A pattern with its content: shape (n0, n1), the samplings, fftshift and
\* the pixels as a function of the 1-based index pair.  A radius is a
\* fraction <<num, den>>.
\* np.linspace(lo, hi, n)[i - 1] for the limits of fourier_space_extent,
\* whose distance is (n - 1) samplings
angular_coordinate(self, axis, i) ==
    fourier_space_extent([array |-> [shape |-> self.shape],
                          angular_sampling |-> self.angular_sampling])[axis][1]
        + (i - 1) * self.angular_sampling[axis]

\* max(self.angular_sampling) * 1.1
DefaultRadius(self) ==
    <<11 * (IF self.angular_sampling[1] >= self.angular_sampling[2]
            THEN self.angular_sampling[1] ELSE self.angular_sampling[2]), 10>>

\* the inner function block_direct(array): array * (alpha > radius ** 2)
block_direct_array(self, radius) ==
    LET r == IF radius.py = "None" THEN DefaultRadius(self) ELSE <<radius.val[1], 1>>
    IN  [p \in DOMAIN self.pixels |->
            LET alpha == angular_coordinate(self, 1, p[1]) * angular_coordinate(self, 1, p[1])
                         + angular_coordinate(self, 2, p[2]) * angular_coordinate(self, 2, p[2])
                block == alpha * r[2] * r[2] > r[1] * r[1]
            IN  IF block THEN self.pixels[p] ELSE 0]

\* ------------------------------------------------------------------------
\* axes.py: HasAxes, an object with ensemble and base axes
\* ------------------------------------------------------------------------
\* HasAxes.axes_metadata
HasAxes_axes_metadata(self) == self.ensemble_axes_metadata \o self.base_axes_metadata

\* HasAxes.shape
HasAxes_shape(self) == self.ensemble_shape \o self.base_shape

\* HasAxes.scan_axes counting its indices from the first ensemble axis
HasAxes_scan_axes_from_start(self) ==
    LET num_trailing_scan_axes == TrailingScanAxes(self.ensemble_axes_metadata, 0)
    IN  [k \in 1..num_trailing_scan_axes |-> k - 1]

\* HasAxes.scan_axes: the indices as a tuple
HasAxes_scan_axes(self) ==
    LET num_trailing_scan_axes == TrailingScanAxes(self.ensemble_axes_metadata, 0)
    IN  [k \in 1..num_trailing_scan_axes |->
            Len(self.ensemble_shape) - num_trailing_scan_axes + k - 1]

\* HasAxes.num_scan_axes
num_scan_axes(self) == Len(HasAxes_scan_axes(self))

\* HasAxes.scan_shape
scan_shape(self) ==
    LET axes == HasAxes_scan_axes(self)
    IN  [k \in 1..Len(axes) |-> HasAxes_shape(self)[axes[k] + 1]]

\* HasAxes.scan_sampling
scan_sampling(self) ==
    LET axes == HasAxes_scan_axes(self)
    IN  [k \in 1..Len(axes) |-> HasAxes_axes_metadata(self)[axes[k] + 1].sampling]

\* ------------------------------------------------------------------------
\* Axis operations as a state machine: an axis is drawn, one operation is
\* applied to it and its outcome recorded
\* ------------------------------------------------------------------------
\* the sequences over S of length at most n
SeqsUpTo(S, n) == UNION {[1..k -> S] : k \in 0..n}

\* the values a tuple of an OrdinalAxis holds
AxisValues == {1, 2}

AxisLabels(cls) == {DefaultLabel(cls), "t"}

\* the axes operations are tried on: every class, with its label, its
\* _concatenate flag and its sampling or its values varied
AxisPool ==
    {[DefaultAxis(c) EXCEPT !.label = l, !._concatenate = k] :
        c \in {"AxisMetadata", "UnknownAxis", "SampleAxis"}, l \in {"unknown", "t"}, k \in BOOLEAN}
    \cup UNION {{[DefaultAxis(c) EXCEPT !.label = l, !._concatenate = k, !.sampling = s] :
                    l \in AxisLabels(c), k \in BOOLEAN, s \in {1, 2}} : c \in LinearClasses}
    \cup UNION {{[DefaultAxis(c) EXCEPT !.label = l, !._concatenate = k, !.values = v] :
                    l \in AxisLabels(c), k \in BOOLEAN, v \in SeqsUpTo(AxisValues, MaxLen)} :
                 c \in OrdinalClasses}

\* the index expressions tried on an axis
Selectors ==
    {Scalar(i) : i \in -MaxLen..MaxLen}
    \cup {Slice(lo, hi) : lo \in -1..MaxLen, hi \in -1..(MaxLen + 1)}
    \cup {IndexList(idx) : idx \in SeqsUpTo(-1..(MaxLen - 1), 2) \ {<<>>}}
    \cup {Mask(mask) : mask \in SeqsUpTo(BOOLEAN, MaxLen)}

NoOutcome == [status |-> "none", ref |-> "none", val |-> NoAxis, md |-> {}]

AxisInit ==
    /\ a \in AxisPool
    /\ axres = [op |-> "none", other |-> NoAxis, item |-> Scalar(0), out |-> NoOutcome]
    /\ m = NoMeasurement
    /\ mres = NoOp
    /\ data = <<>>
    /\ red = [method |-> "none", out |-> <<>>]
    /\ call = NoCall
    /\ ret = NoRet
    /\ store = EmptyStore
    /\ heap = EmptyHeap

\* a.concatenate(b)
AxisConcatenate ==
    /\ axres.op = "none"
    /\ \E b \in AxisPool :
          axres' = [op |-> "concatenate", other |-> b, item |-> Scalar(0), out |-> concatenate(a, b)]
    /\ UNCHANGED <<a, m, mres, data, red, call, ret, store, heap>>

\* a[item]
AxisGetItem ==
    /\ axres.op = "none"
    /\ \E item \in Selectors :
          axres' = [op |-> "getitem", other |-> NoAxis, item |-> item, out |-> getitem(a, item)]
    /\ UNCHANGED <<a, m, mres, data, red, call, ret, store, heap>>

\* a.item_metadata(i)
AxisItemMetadata ==
    /\ axres.op = "none"
    /\ \E i \in -MaxLen..MaxLen :
          axres' = [op |-> "item_metadata", other |-> NoAxis, item |-> Scalar(i),
                    out |-> item_metadata(a, i)]
    /\ UNCHANGED <<a, m, mres, data, red, call, ret, store, heap>>

AxisNext == AxisConcatenate \/ AxisGetItem \/ AxisItemMetadata

SpecAxis == AxisInit /\ [][AxisNext]_vars

\* ------------------------------------------------------------------------
\* Serialization of an axis as a state machine: an axis is encoded and the
\* dict decoded again, or a dict with some other tag is decoded
\* ------------------------------------------------------------------------
\* the start and end values of the scan axes that are serialized
Points == {NonePoint, TuplePoint(<<0, 1>>), ArrayPoint(<<0, 1>>), ArrayPoint(<<1, 2>>)}

SerialPool ==
    AxisPool \cup {[DefaultAxis("ScanAxis") EXCEPT !.start = s, !.end = e] : s, e \in Points}

\* the tags of the dicts that are decoded without having been encoded
ForeignTags == {"TiltAxis", "HasAxes", "Number", "dataclass", "np", "NoSuchAxis"}

SerialInit ==
    /\ a \in SerialPool
    /\ axres = [op |-> "none", other |-> NoAxis, item |-> Scalar(0), out |-> NoOutcome]
    /\ m = NoMeasurement
    /\ mres = NoOp
    /\ data = <<>>
    /\ red = [method |-> "none", out |-> <<>>]
    /\ call = NoCall
    /\ ret = NoRet
    /\ store = EmptyStore
    /\ heap = EmptyHeap

\* d = axis_to_dict(a)
AxisToDict ==
    /\ call.f = "none"
    /\ call' = [f |-> "axis_to_dict"]
    /\ ret' = [status |-> "ok", d |-> axis_to_dict(a)]
    /\ UNCHANGED <<a, axres, m, mres, data, red, store, heap>>

\* axis_from_dict(d) for the d just encoded
AxisFromDict ==
    /\ call.f = "axis_to_dict"
    /\ call' = [f |-> "axis_from_dict", d |-> ret.d, encoded |-> TRUE]
    /\ ret' = axis_from_dict(ret.d)
    /\ UNCHANGED <<a, axres, m, mres, data, red, store, heap>>

\* axis_from_dict(d) for a dict with a tag of its own: the tag alone, or the
\* items of an encoded axis under it
AxisFromDictTagged ==
    /\ call.f = "none"
    /\ \E tag \in ForeignTags, bare \in BOOLEAN :
          LET d == IF bare THEN [key \in {"type"} |-> tag]
                   ELSE [axis_to_dict(a) EXCEPT !["type"] = tag]
          IN  /\ call' = [f |-> "axis_from_dict", d |-> d, encoded |-> FALSE]
              /\ ret' = axis_from_dict(d)
    /\ UNCHANGED <<a, axres, m, mres, data, red, store, heap>>

SerialNext == AxisToDict \/ AxisFromDict \/ AxisFromDictTagged

SpecSerial == SerialInit /\ [][SerialNext]_vars

\* ------------------------------------------------------------------------
\* The scan properties of an object with axes, as a state machine: an
\* object is drawn and one of its properties read
\* ------------------------------------------------------------------------
\* most ensemble axes of the object
MaxScanList == 3

\* the ensemble axes: scan axes of two samplings, the class ScanAxis derives
\* from, and an ordinal axis
ScanPoolAxes ==
    {[DefaultAxis("ScanAxis") EXCEPT !.sampling = s] : s \in {1, 2}}
    \cup {DefaultAxis("RealSpaceAxis"), DefaultAxis("FrozenPhononsAxis")}

\* the objects: the length of dimension k is k or k + 1 throughout, so that
\* no two dimensions are equally long
HasAxesPool ==
    {[ensemble_axes_metadata |-> E,
      base_axes_metadata |-> <<DefaultAxis("RealSpaceAxis"), DefaultAxis("RealSpaceAxis")>>,
      ensemble_shape |-> [k \in 1..Len(E) |-> k + d],
      base_shape |-> <<Len(E) + 1 + d, Len(E) + 2 + d>>] :
        E \in SeqsUpTo(ScanPoolAxes, MaxScanList), d \in {0, 1}}

ScanInit ==
    /\ call \in {[f |-> "none", self |-> h] : h \in HasAxesPool}
    /\ ret = NoRet
    /\ a = NoAxis
    /\ axres = [op |-> "none", other |-> NoAxis, item |-> Scalar(0), out |-> NoOutcome]
    /\ m = NoMeasurement
    /\ mres = NoOp
    /\ data = <<>>
    /\ red = [method |-> "none", out |-> <<>>]
    /\ store = EmptyStore
    /\ heap = EmptyHeap

\* self.scan_axes
ScanAxes ==
    /\ call.f = "none"
    /\ call' = [call EXCEPT !.f = "scan_axes"]
    /\ ret' = [status |-> "ok", val |-> HasAxes_scan_axes(call.self)]
    /\ UNCHANGED <<a, axres, m, mres, data, red, store, heap>>

\* self.scan_shape
ScanShape ==
    /\ call.f = "none"
    /\ call' = [call EXCEPT !.f = "scan_shape"]
    /\ ret' = [status |-> "ok", val |-> scan_shape(call.self)]
    /\ UNCHANGED <<a, axres, m, mres, data, red, store, heap>>

\* self.scan_sampling
ScanSampling ==
    /\ call.f = "none"
    /\ call' = [call EXCEPT !.f = "scan_sampling"]
    /\ ret' = [status |-> "ok", val |-> scan_sampling(call.self)]
    /\ UNCHANGED <<a, axres, m, mres, data, red, store, heap>>

\* self.num_scan_axes
NumScanAxes ==
    /\ call.f = "none"
    /\ call' = [call EXCEPT !.f = "num_scan_axes"]
    /\ ret' = [status |-> "ok", val |-> num_scan_axes(call.self)]
    /\ UNCHANGED <<a, axres, m, mres, data, red, store, heap>>

ScanNext == ScanAxes \/ ScanShape \/ ScanSampling \/ NumScanAxes

SpecScan == ScanInit /\ [][ScanNext]_vars

\* ------------------------------------------------------------------------
\* Measurements as a state machine: a measurement is constructed, then
\* transforms are applied, each to the result of the last
\* ------------------------------------------------------------------------
\* the ensemble axes a measurement is constructed with, each with the length
\* of its dimension: a scan axis and an ordinal axis with one value per index
EnsembleAxes ==
    {[axis |-> DefaultAxis("ScanAxis"), n |-> MaxLen],
     [axis |-> [DefaultAxis("FrozenPhononsAxis") EXCEPT !.values = [k \in 1..MaxLen |-> k]],
      n |-> MaxLen]}

\* the shape of the base dimensions of a constructed measurement
BaseShape(kind) == IF kind = "LineProfiles" THEN <<MaxLen>> ELSE <<MaxLen, MaxLen + 1>>

FreeMetadata == PyDict({<<"energy", 1>>})

\* a measurement of the given class over the given ensemble axes
Constructed(kind, ens) ==
    LET array == [shape |-> [k \in 1..Len(ens) |-> ens[k].n] \o BaseShape(kind)]
        axes == [k \in 1..Len(ens) |-> ens[k].axis]
    IN  CASE kind = "Images" -> Images(array, <<1, 2>>, axes, FreeMetadata)
          [] kind = "LineProfiles" -> LineProfiles(array, <<0, 0>>, <<1, 0>>, axes, FreeMetadata)
          [] kind = "DiffractionPatterns" ->
                DiffractionPatterns(array, <<1, 2>>, TRUE, axes, FreeMetadata)
          [] kind = "PolarMeasurements" ->
                PolarMeasurements(array, <<1, 1>>, <<2, 1>>, 0, 0, axes, FreeMetadata)

Init ==
    /\ \E kind \in MeasurementKinds, ens \in SeqsUpTo(EnsembleAxes, MaxEnsemble) :
          m = Constructed(kind, ens)
    /\ mres = NoOp
    /\ a = NoAxis
    /\ axres = [op |-> "none", other |-> NoAxis, item |-> Scalar(0), out |-> NoOutcome]
    /\ data = <<>>
    /\ red = [method |-> "none", out |-> <<>>]
    /\ call = NoCall
    /\ ret = NoRet
    /\ store = EmptyStore
    /\ heap = EmptyHeap

\* an operation is called on m and its outcome recorded; m is the operand
\* still.  Copies append to the axes metadata list without end: the list is
\* followed up to MaxMetadata entries.
Apply(op, arg, out) ==
    /\ mres.op = "none"
    /\ Len(out.val._axes_metadata) <= MaxMetadata
    /\ mres' = [op |-> op, arg |-> arg, out |-> out]
    /\ UNCHANGED <<m, a, axres, data, red, call, ret, store, heap>>

\* the caller goes on with the measurement the call returned (as in
\* com = self.center_of_mass()), or, when the call raised or returned None,
\* with the one it had
Continue ==
    /\ mres.op # "none"
    /\ m' = IF mres.out.status = "ok" /\ mres.out.val.kind # "None" THEN mres.out.val ELSE m
    /\ mres' = NoOp
    /\ UNCHANGED <<a, axres, data, red, call, ret, store, heap>>

\* m.copy(), m.copy(True), m.copy(False)
Copy ==
    \E copy_array \in {"omitted", "True", "False"} :
        Apply("copy", [copy_array |-> copy_array], copy(m, copy_array))

\* the axes arguments of a reduction: None or a tuple of dimensions of m
ReductionAxes ==
    {[given |-> FALSE, set |-> {}]}
    \cup {[given |-> TRUE, set |-> A] : A \in SUBSET (0..(dimensions(m) - 1))}

\* m.mean(axes)
Mean ==
    \E axes \in ReductionAxes :
        Apply("mean", [axes |-> axes, func |-> reduction_func("mean")],
              _reduction(m, reduction_func("mean"), axes))

\* m.sum(axes)
Sum ==
    \E axes \in ReductionAxes :
        Apply("sum", [axes |-> axes, func |-> reduction_func("sum")],
              _reduction(m, reduction_func("sum"), axes))

\* m.std(axes)
Std ==
    \E axes \in ReductionAxes :
        Apply("std", [axes |-> axes, func |-> reduction_func("std")],
              _reduction(m, reduction_func("std"), axes))

\* the components of an index tuple
ItemComponents == {Scalar(0), Scalar(1), Slice(0, 1)}

\* the index expressions given to a measurement
MeasurementItems ==
    {NumberItem(0), BareItem(Slice(0, 1)), BareItem(IndexList(<<1, 0>>))}
    \cup {TupleItem(comps) : comps \in SeqsUpTo(ItemComponents, MaxEnsemble + 1) \ {<<>>}}

\* m[items]
GetItem ==
    /\ m.kind = "DiffractionPatterns"
    /\ \E items \in MeasurementItems :
          Apply("getitem", [items |-> items], DiffractionPatterns_getitem(m, items))

\* m.block_direct(radius)
BlockDirect ==
    /\ m.kind = "DiffractionPatterns"
    /\ Apply("block_direct", [radius |-> 1], block_direct(m, 1))

\* m.integrate_radial(0, outer)
IntegrateRadial ==
    /\ m.kind = "DiffractionPatterns"
    /\ \E outer \in 1..MaxLen :
          Apply("integrate_radial", [inner |-> 0, outer |-> outer], integrate_radial(m, 0, outer))

\* m.polar_binning(nbins_radial, nbins_azimuthal, 0, outer)
PolarBinning ==
    /\ m.kind = "DiffractionPatterns"
    /\ \E nbins_radial \in 1..2, nbins_azimuthal \in 1..2, outer \in 1..MaxLen :
          Apply("polar_binning",
                [nbins_radial |-> nbins_radial, nbins_azimuthal |-> nbins_azimuthal,
                 inner |-> 0, outer |-> outer],
                polar_binning(m, nbins_radial, nbins_azimuthal, 0, outer, 0))

Next ==
    \/ Copy
    \/ Mean
    \/ Sum
    \/ Std
    \/ GetItem
    \/ BlockDirect
    \/ IntegrateRadial
    \/ PolarBinning
    \/ Continue

Spec == Init /\ [][Next]_vars

\* ------------------------------------------------------------------------
\* The statistics of a reduction: the array of a measurement with one
\* ensemble axis is reduced along that axis
\* ------------------------------------------------------------------------
RECURSIVE Gcd(_, _)
Gcd(x, y) == IF y = 0 THEN x ELSE Gcd(y, x % y)

\* the number num/den in lowest terms, or its square root
Rational(num, den) ==
    LET g == Gcd(num, den) IN [root |-> FALSE, num |-> num \div g, den |-> den \div g]
RootOf(num, den) == [Rational(num, den) EXCEPT !.root = TRUE]

RECURSIVE SumOf(_)
SumOf(xs) == IF xs = <<>> THEN 0 ELSE Head(xs) + SumOf(Tail(xs))

\* dask.array.mean along one axis, for the values xs along it
da_mean(xs) == Rational(SumOf(xs), Len(xs))

\* dask.array.std along one axis: the root of the mean squared deviation,
\* (n * sum(x^2) - sum(x)^2) / n^2
da_std(xs) ==
    RootOf(Len(xs) * SumOf([k \in 1..Len(xs) |-> xs[k] * xs[k]]) - SumOf(xs) * SumOf(xs),
           Len(xs) * Len(xs))

\* reduction_func(array, (0,)) on an array given as its rows along axis 0:
\* one value per position of the remaining dimension
reduce_axis0(func, rows) ==
    [j \in 1..Len(rows[1]) |->
        LET column == [i \in 1..Len(rows) |-> rows[i][j]]
        IN  IF func = "da.mean" THEN da_mean(column) ELSE da_std(column)]

\* the pixels of one base array, flattened
Pixels == 2

\* the values of a pixel
PixelValues == 0..2

StatInit ==
    /\ \E n \in 1..MaxLen : data \in [1..n -> [1..Pixels -> PixelValues]]
    /\ red = [method |-> "none", out |-> <<>>]
    /\ call = NoCall
    /\ ret = NoRet
    /\ m = NoMeasurement
    /\ mres = NoOp
    /\ a = NoAxis
    /\ axres = [op |-> "none", other |-> NoAxis, item |-> Scalar(0), out |-> NoOutcome]
    /\ store = EmptyStore
    /\ heap = EmptyHeap

\* method(0) on the measurement holding data: _reduction puts
\* reduction_func(new_copy._array, axes) into the copy
Reduced(method) ==
    /\ red.method = "none"
    /\ red' = [method |-> method, out |-> reduce_axis0(reduction_func(method), data)]
    /\ UNCHANGED <<data, m, mres, a, axres, call, ret, store, heap>>

StatMean == Reduced("mean")

StatSum == Reduced("sum")

StatStd == Reduced("std")

StatNext == StatMean \/ StatSum \/ StatStd

SpecStat == StatInit /\ [][StatNext]_vars

\* ------------------------------------------------------------------------
\* Images under interpolate, is_compatible and subtract
\* ------------------------------------------------------------------------
\* the images: over the ensemble axes of Constructed, with two samplings and
\* three base shapes
ImagesPool ==
    {Images([shape |-> [k \in 1..Len(ens) |-> ens[k].n] \o base], sampling,
            [k \in 1..Len(ens) |-> ens[k].axis], FreeMetadata) :
        ens \in SeqsUpTo(EnsembleAxes, MaxEnsemble),
        base \in {BaseShape("Images"), <<1, MaxLen + 1>>, <<MaxLen + 1, MaxLen + 1>>},
        sampling \in {<<1, 2>>, <<2, 2>>}}

ImagesInit ==
    /\ m \in ImagesPool
    /\ mres = NoOp
    /\ a = NoAxis
    /\ axres = [op |-> "none", other |-> NoAxis, item |-> Scalar(0), out |-> NoOutcome]
    /\ data = <<>>
    /\ red = [method |-> "none", out |-> <<>>]
    /\ call = NoCall
    /\ ret = NoRet
    /\ store = EmptyStore
    /\ heap = EmptyHeap

\* the sampling and gpts arguments tried
SamplingArgs == {ArgNone, ArgNumber(1), ArgNumber(2), ArgTuple(<<1, 2>>)}
GptsArgs == {ArgNone, ArgNumber(2), ArgTuple(<<2, 4>>)}

\* m.interpolate(sampling, gpts, method, boundary)
Interpolate ==
    \E sampling \in SamplingArgs, gpts \in GptsArgs, method \in {"fft", "spline"},
       boundary \in {"periodic", "reflect"} :
        Apply("interpolate",
              [sampling |-> sampling, gpts |-> gpts, method |-> method, boundary |-> boundary],
              Images_interpolate(m, sampling, gpts, method, boundary))

\* m.is_compatible(other)
IsCompatible ==
    \E other \in ImagesPool :
        Apply("is_compatible", [other |-> other], MReturnedBool(Images_is_compatible(m, other)))

\* m.subtract(other)
Subtract ==
    \E other \in ImagesPool :
        Apply("subtract", [other |-> other], Images_subtract(m, other))

ImagesNext == Interpolate \/ IsCompatible \/ Subtract

SpecImages == ImagesInit /\ [][ImagesNext]_vars

\* ------------------------------------------------------------------------
\* Diffraction patterns of several sizes under the angle properties and the
\* binning operations
\* ------------------------------------------------------------------------
\* largest of the small base lengths
MaxGpts == 5

\* the base lengths: the small ones and the two of the documented example
Gpts == (1..MaxGpts) \cup {63, 64}

PatternPool ==
    {DiffractionPatterns([shape |-> [k \in 1..Len(ens) |-> ens[k].n] \o <<n0, n1>>], <<d0, d1>>,
                         TRUE, [k \in 1..Len(ens) |-> ens[k].axis], FreeMetadata) :
        ens \in SeqsUpTo(EnsembleAxes, 1), n0 \in Gpts, n1 \in Gpts, d0 \in {1, 2}, d1 \in {1, 2}}

PatternInit ==
    /\ m \in PatternPool
    /\ mres = NoOp
    /\ a = NoAxis
    /\ axres = [op |-> "none", other |-> NoAxis, item |-> Scalar(0), out |-> NoOutcome]
    /\ data = <<>>
    /\ red = [method |-> "none", out |-> <<>>]
    /\ call = NoCall
    /\ ret = NoRet
    /\ store = EmptyStore
    /\ heap = EmptyHeap

\* m.max_angles
MaxAngles == Apply("max_angles", [none |-> TRUE], MReturnedValue(max_angles(m)))

\* m.fourier_space_extent
FourierSpaceExtent ==
    Apply("fourier_space_extent", [none |-> TRUE], MReturnedValue(fourier_space_extent(m)))

\* m.radial_binning(step_size, inner, outer), outer given or not
RadialBinning ==
    \E step_size \in 1..2, inner \in 0..1,
       outer \in {ArgNone} \cup {ArgNumber(x) : x \in 1..(MaxLen + 1)} :
        Apply("radial_binning", [step_size |-> step_size, inner |-> inner, outer |-> outer],
              radial_binning(m, step_size, inner, outer))

PatternNext ==
    \/ MaxAngles
    \/ FourierSpaceExtent
    \/ PolarBinning
    \/ RadialBinning
    \/ IntegrateRadial

SpecPatterns == PatternInit /\ [][PatternNext]_vars

\* ------------------------------------------------------------------------
\* The content of a pattern under block_direct
\* ------------------------------------------------------------------------
\* longest base axis of a pattern with content
MaxBlock == 3

\* the patterns: every shape up to MaxBlock, samplings 1 and 2, nowhere zero
\* (all ones, or the pixels numbered)
BlockPool ==
    {[shape |-> <<n0, n1>>, angular_sampling |-> <<d0, d1>>, fftshift |-> TRUE,
      pixels |-> [p \in (1..n0) \X (1..n1) |-> IF ones THEN 1 ELSE (p[1] - 1) * n1 + p[2]]] :
        n0 \in 1..MaxBlock, n1 \in 1..MaxBlock, d0 \in {1, 2}, d1 \in {1, 2}, ones \in BOOLEAN}

BlockInit ==
    /\ call \in {[f |-> "none", self |-> p] : p \in BlockPool}
    /\ ret = NoRet
    /\ a = NoAxis
    /\ axres = [op |-> "none", other |-> NoAxis, item |-> Scalar(0), out |-> NoOutcome]
    /\ m = NoMeasurement
    /\ mres = NoOp
    /\ data = <<>>
    /\ red = [method |-> "none", out |-> <<>>]
    /\ store = EmptyStore
    /\ heap = EmptyHeap

\* self.block_direct(radius), radius None or a number
BlockDirectArray ==
    /\ call.f = "none"
    /\ \E radius \in {ArgNone} \cup {ArgNumber(r) : r \in 0..MaxBlock} :
          /\ call' = [f |-> "block_direct", self |-> call.self, radius |-> radius]
          /\ ret' = [status |-> "ok", pixels |-> block_direct_array(call.self, radius),
                     angular_sampling |-> call.self.angular_sampling,
                     fftshift |-> call.self.fftshift]
    /\ UNCHANGED <<a, axres, m, mres, data, red, store, heap>>

BlockNext == BlockDirectArray

SpecBlock == BlockInit /\ [][BlockNext]_vars

\* ------------------------------------------------------------------------
\* measure.py: the bins of a PolarMeasurements under integrate
\* ------------------------------------------------------------------------
\* A polar measurement with its content: shape (R, C) of radial and
\* azimuthal bins, the samplings and offsets, and bins[e][<<r, c>>] the value
\* of a bin of ensemble slice e (1-based indices).
\* the 1-based positions slice(lo, hi) selects of n, all of them for
\* slice(None)
SliceRange(limits, lo, hi, n) ==
    IF limits.py = "None" THEN 1..n ELSE (SliceBound(lo, n) + 1)..SliceBound(hi, n)

\* array[..., selected].sum(...) per ensemble slice; selected(r, c) tells
\* how often bin (r, c) is taken
SumSelected(self, times(_, _)) ==
    LET R == self.shape[1]
        C == self.shape[2]
    IN  [e \in 1..Len(self.bins) |->
            SumOf([k \in 1..(R * C) |->
                      LET r == ((k - 1) \div C) + 1
                          c == ((k - 1) % C) + 1
                      IN  times(r, c) * self.bins[e][<<r, c>>]])]

\* how often the flat index k occurs in the list of regions; a negative
\* index counts from the end
Occurrences(regions, k, size) ==
    Cardinality({j \in 1..Len(regions) :
                    (IF regions[j] < 0 THEN regions[j] + size ELSE regions[j]) = k})

\* PolarMeasurements.integrate: the array of the returned Images
PolarMeasurements_integrate(self, radial_limits, azimutal_limits, detector_regions) ==
    LET R == self.shape[1]
        C == self.shape[2]
    IN  IF detector_regions.py # "None"
        THEN IF \E j \in 1..Len(detector_regions.val) :
                    detector_regions.val[j] >= R * C \/ detector_regions.val[j] < -(R * C)
             THEN [status |-> "IndexError", array |-> <<>>]
             ELSE [status |-> "ok",
                   array |-> LET times(r, c) ==
                                     Occurrences(detector_regions.val, (r - 1) * C + c - 1, R * C)
                             IN  SumSelected(self, times)]
        ELSE LET inner_index == IF radial_limits.py = "None" THEN 0
                                ELSE TruncDiv(radial_limits.val[1] - self.radial_offset,
                                              self.radial_sampling)
                 outer_index == IF radial_limits.py = "None" THEN 0
                                ELSE TruncDiv(radial_limits.val[2] - self.radial_offset,
                                              self.radial_sampling)
                 left_index == IF azimutal_limits.py = "None" THEN 0
                               ELSE TruncDiv(azimutal_limits.val[1], self.radial_sampling)
                 right_index == IF azimutal_limits.py = "None" THEN 0
                                ELSE TruncDiv(azimutal_limits.val[2], self.radial_sampling)
                 rows == SliceRange(radial_limits, inner_index, outer_index, R)
                 cols == SliceRange(azimutal_limits, left_index, right_index, C)
                 times(r, c) == IF r \in rows /\ c \in cols THEN 1 ELSE 0
             IN  [status |-> "ok", array |-> SumSelected(self, times)]

\* ------------------------------------------------------------------------
\* The content of a polar measurement under integrate
\* ------------------------------------------------------------------------
\* most radial and most azimuthal bins
MaxBins == 2

\* the polar measurements: two ensemble slices, the bins numbered
PolarPool ==
    {[shape |-> <<R, C>>, radial_sampling |-> rs, azimuthal_sampling |-> as,
      radial_offset |-> ro, azimuthal_offset |-> ao,
      bins |-> [e \in 1..2 |-> [p \in (1..R) \X (1..C) |-> 10 * e + (p[1] - 1) * C + p[2]]]] :
        R \in 1..MaxBins, C \in 1..MaxBins, rs \in {1, 2}, as \in {1, 2}, ro \in {0, 1},
        ao \in {0, 1}}

PolarInit ==
    /\ call \in {[f |-> "none", self |-> p] : p \in PolarPool}
    /\ ret = NoRet
    /\ a = NoAxis
    /\ axres = [op |-> "none", other |-> NoAxis, item |-> Scalar(0), out |-> NoOutcome]
    /\ m = NoMeasurement
    /\ mres = NoOp
    /\ data = <<>>
    /\ red = [method |-> "none", out |-> <<>>]
    /\ store = EmptyStore
    /\ heap = EmptyHeap

\* the limits tried: None or a pair of angles
LimitArgs == {ArgNone} \cup {ArgTuple(<<lo, hi>>) : lo \in 0..2, hi \in 1..(MaxBins + 1)}

\* the detector regions tried: None or a list of flat bin indices
RegionArgs(self) ==
    {ArgNone} \cup {ArgTuple(l) : l \in SeqsUpTo(0..(self.shape[1] * self.shape[2] - 1), 2) \ {<<>>}}

\* self.integrate(radial_limits, azimutal_limits, detector_regions)
IntegratePolar ==
    /\ call.f = "none"
    /\ \E radial_limits \in LimitArgs, azimutal_limits \in LimitArgs,
          detector_regions \in RegionArgs(call.self) :
          /\ call' = [f |-> "integrate", self |-> call.self, radial_limits |-> radial_limits,
                      azimutal_limits |-> azimutal_limits, detector_regions |-> detector_regions]
          /\ ret' = PolarMeasurements_integrate(call.self, radial_limits, azimutal_limits,
                                                detector_regions)
    /\ UNCHANGED <<a, axres, m, mres, data, red, store, heap>>

PolarNext == IntegratePolar

SpecPolar == PolarInit /\ [][PolarNext]_vars

\* ------------------------------------------------------------------------
\* measure.py: to_zarr and from_zarr
\* ------------------------------------------------------------------------
\* A store holds what was written to it: the array under 'array' and the
\* attributes axes_metadata, metadata, kwargs and cls.  Attributes are kept
\* as JSON: a dict, a list, a number, a string and None are encoded, an
\* object of another class is not.
JsonSerializable(entry) == entry.cls = "dict"

\* abtem.waves.scan.LineScan(start, end, gpts).sampling[0] of a horizontal
\* line: its length over the number of points
LineScan_sampling(self) ==
    (self.end[1] - self.start[1]) \div self.array.shape[Len(self.array.shape)]

\* the keyword arguments each class hands to _to_zarr
to_zarr_kwargs(self) ==
    CASE self.kind = "Images" -> [sampling |-> self.sampling]
      [] self.kind = "LineProfiles" -> [sampling |-> LineScan_sampling(self)]
      [] self.kind = "DiffractionPatterns" ->
            [angular_sampling |-> self.angular_sampling, fftshift |-> self.fftshift]

\* what a call on a store gives: its status and the store afterwards
Stored(status, after) == [status |-> status, store |-> after]

\* AbstractMeasurement._to_zarr: the array is written, then the attributes
\* one by one
_to_zarr(self, kwargs) ==
    IF \E k \in 1..Len(self._axes_metadata) : ~JsonSerializable(self._axes_metadata[k])
    THEN Stored("TypeError", [written |-> {"array"}, array |-> self.array])
    ELSE Stored("ok", [written |-> {"array", "axes_metadata", "metadata", "kwargs", "cls"},
                       array |-> self.array, axes_metadata |-> self._axes_metadata,
                       metadata |-> self._metadata, kwargs |-> kwargs, cls |-> self.kind])

\* to_zarr of each class; PolarMeasurements.to_zarr is 'pass'
to_zarr(self, before) ==
    IF self.kind = "PolarMeasurements" THEN Stored("ok", before)
    ELSE _to_zarr(self, to_zarr_kwargs(self))

\* AbstractMeasurement.from_zarr
from_zarr(from) ==
    IF from.written = {} THEN MRaised("PathNotFoundError")
    ELSE IF "axes_metadata" \notin from.written THEN MRaised("KeyError")
    ELSE LET array == from.array
             kwargs == from.kwargs
         IN  CASE from.cls = "Images" ->
                    MReturned(Images(array, kwargs.sampling, from.axes_metadata, from.metadata),
                              "new")
               [] from.cls = "LineProfiles" ->
                    \* start and end are not stored: start = (0., 0.) and
                    \* end = (start[0] + len(array) * sampling, start[1])
                    MReturned(LineProfiles(array, <<0, 0>>,
                                           <<0 + array.shape[1] * kwargs.sampling, 0>>,
                                           from.axes_metadata, from.metadata),
                              "new")
               [] from.cls = "DiffractionPatterns" ->
                    MReturned(DiffractionPatterns(array, kwargs.angular_sampling, kwargs.fftshift,
                                                  from.axes_metadata, from.metadata),
                              "new")

\* ------------------------------------------------------------------------
\* Persistence as a state machine: a measurement is written to an empty
\* store and read back from it
\* ------------------------------------------------------------------------
\* the ensemble axes of the measurements stored: the axis objects of
\* EnsembleAxes and an axis given as a dict
StoredEnsembleAxes ==
    EnsembleAxes \cup {[axis |-> BaseAxisDict("scan", "positions", 1), n |-> MaxLen]}

\* a line profile of the pool runs from the origin with sampling 1
OnUnitLine(self) ==
    IF self.kind = "LineProfiles"
    THEN [self EXCEPT !.end = <<self.array.shape[Len(self.array.shape)], 0>>]
    ELSE self

\* the measurements stored: every class over up to MaxEnsemble of these
\* axes, with a dict or None as metadata, and a line profile that does not
\* start at the origin
ZarrPool ==
    {[OnUnitLine(Constructed(kind, ens)) EXCEPT !._metadata = metadata] :
        kind \in MeasurementKinds, ens \in SeqsUpTo(StoredEnsembleAxes, MaxEnsemble),
        metadata \in {FreeMetadata, PyNone}}
    \cup {LineProfiles([shape |-> <<MaxLen>>], <<1, 0>>, <<1 + MaxLen, 0>>, <<>>, FreeMetadata)}

ZarrInit ==
    /\ m \in ZarrPool
    /\ mres = NoOp
    /\ store = EmptyStore
    /\ heap = EmptyHeap
    /\ a = NoAxis
    /\ axres = [op |-> "none", other |-> NoAxis, item |-> Scalar(0), out |-> NoOutcome]
    /\ data = <<>>
    /\ red = [method |-> "none", out |-> <<>>]
    /\ call = NoCall
    /\ ret = NoRet

\* m.to_zarr(url)
ToZarr ==
    /\ mres.op = "none"
    /\ LET out == to_zarr(m, store)
       IN  /\ store' = out.store
           /\ mres' = [op |-> "to_zarr", arg |-> [none |-> TRUE],
                       out |-> IF out.status = "ok" THEN MReturnedNone ELSE MRaised(out.status)]
    /\ UNCHANGED <<m, a, axres, data, red, call, ret, heap>>

\* AbstractMeasurement.from_zarr(url) after m.to_zarr(url) returned
FromZarr ==
    /\ mres.op = "to_zarr"
    /\ mres.out.status = "ok"
    /\ mres' = [op |-> "from_zarr", arg |-> [none |-> TRUE], out |-> from_zarr(store)]
    /\ UNCHANGED <<m, store, a, axres, data, red, call, ret, heap>>

ZarrNext == ToZarr \/ FromZarr

SpecZarr == ZarrInit /\ [][ZarrNext]_vars

\* ------------------------------------------------------------------------
\* measure.py: the values polar_binning computes
\* ------------------------------------------------------------------------
\* A pattern with values is a DiffractionPatterns with at most one ensemble
\* dimension and a fill giving the value of pixel p (flat index in the base
\* plane, counted from 1) of ensemble slice s.
Value(fill, s, p, npixels) ==
    CASE fill.name = "ones" -> 1
      [] fill.name = "ramp" -> (s - 1) * npixels + p
      [] fill.name = "impulse" -> IF s = fill.slice /\ p = fill.pixel THEN 1 ELSE 0

\* the angle of grid point i (from 1) of an axis with n points: zero
\* frequency at index n // 2 when shifted, in fftfreq order otherwise
bin_coordinate(n, d, fftshift, i) ==
    IF fftshift THEN (i - 1 - (n \div 2)) * d
    ELSE IF i - 1 < (n + 1) \div 2 THEN (i - 1) * d ELSE (i - 1 - n) * d

\* the radial bin of a pixel with squared angle r2, or -1 outside
\* [inner, outer): floor((r - inner) / ((outer - inner) / nbins_radial))
radial_bin(r2, inner, outer, nbins_radial) ==
    LET edge(k) == inner * nbins_radial + k * (outer - inner)
        inside == {k \in 0..(nbins_radial - 1) :
                      /\ edge(k) * edge(k) <= r2 * nbins_radial * nbins_radial
                      /\ r2 * nbins_radial * nbins_radial < edge(k + 1) * edge(k + 1)}
    IN  IF inside = {} THEN -1 ELSE CHOOSE k \in inside : TRUE

\* the azimuthal bin of a pixel at (x, y), for one bin or two half planes
azimuthal_bin(x, y, nbins_azimuthal) ==
    IF nbins_azimuthal = 1 THEN 0
    ELSE IF y > 0 \/ (y = 0 /\ x >= 0) THEN 0 ELSE 1

\* the bin label of pixel p: radial-major, -1 outside the detector
bin_label(self, p, nbins_radial, nbins_azimuthal, inner, outer) ==
    LET n == Len(self.array.shape)
        n0 == self.array.shape[n - 1]
        n1 == self.array.shape[n]
        x == bin_coordinate(n0, self.angular_sampling[1], self.fftshift, ((p - 1) \div n1) + 1)
        y == bin_coordinate(n1, self.angular_sampling[2], self.fftshift, ((p - 1) % n1) + 1)
        k == radial_bin(x * x + y * y, inner, outer, nbins_radial)
    IN  IF k = -1 THEN -1 ELSE k * nbins_azimuthal + azimuthal_bin(x, y, nbins_azimuthal)

\* abtem.measure.utils.polar_detector_bins(..., return_indices=True): for
\* each bin the flat indices of its pixels, ascending
polar_detector_bins(self, nbins_radial, nbins_azimuthal, inner, outer) ==
    LET n == Len(self.array.shape)
        npixels == self.array.shape[n - 1] * self.array.shape[n]
    IN  [b \in 1..(nbins_radial * nbins_azimuthal) |->
            SelectSeq([p \in 1..npixels |-> p],
                      LAMBDA p : bin_label(self, p, nbins_radial, nbins_azimuthal, inner, outer)
                                    = b - 1)]

RECURSIVE Concatenate(_)
\* np.concatenate(indices)
Concatenate(arrays) == IF arrays = <<>> THEN <<>> ELSE Head(arrays) \o Concatenate(Tail(arrays))

RECURSIVE Cumsum(_, _)
\* xp.cumsum of the lengths, after the leading 0: separators
Cumsum(lengths, from) ==
    IF lengths = <<>> THEN <<from>>
    ELSE <<from>> \o Cumsum(Tail(lengths), from + Head(lengths))

\* abtem.measure.utils.sum_run_length_encoded on one row: result[i] is the
\* sum of row[separators[i]:separators[i + 1]]
sum_run_length_encoded(row, separators) ==
    [i \in 1..(Len(separators) - 1) |-> SumOf(SubSeq(row, separators[i] + 1, separators[i + 1]))]

\* the function polar_binning maps over the blocks, on a block holding the
\* ensemble slices first..last: one nbins_radial x nbins_azimuthal array
\* per slice
polar_binning_block(fill, first, last, npixels, indices, nbins_radial, nbins_azimuthal) ==
    LET separators == Cumsum([i \in 1..Len(indices) |-> Len(indices[i])], 0)
        selected == Concatenate(indices)
        array == [row \in 1..(last - first + 1) |->
                     [j \in 1..Len(selected) |-> Value(fill, first + row - 1, selected[j], npixels)]]
        result == [row \in 1..Len(array) |-> sum_run_length_encoded(array[row], separators)]
    IN  [row \in 1..Len(result) |->
            [r \in 1..nbins_radial |->
                [az \in 1..nbins_azimuthal |-> result[row][(r - 1) * nbins_azimuthal + az]]]]

RECURSIVE map_blocks(_, _, _, _, _, _, _)
\* array.map_blocks over the chunks of the ensemble dimension, the blocks'
\* results concatenated
map_blocks(fill, first, chunks, npixels, indices, nbins_radial, nbins_azimuthal) ==
    IF chunks = <<>> THEN <<>>
    ELSE polar_binning_block(fill, first, first + Head(chunks) - 1, npixels, indices,
                             nbins_radial, nbins_azimuthal)
         \o map_blocks(fill, first + Head(chunks), Tail(chunks), npixels, indices,
                       nbins_radial, nbins_azimuthal)

\* the array of the PolarMeasurements polar_binning returns, one entry per
\* ensemble slice
polar_binning_array(self, fill, chunks, nbins_radial, nbins_azimuthal, inner, outer) ==
    LET n == Len(self.array.shape)
    IN  map_blocks(fill, 1, chunks, self.array.shape[n - 1] * self.array.shape[n],
                   polar_detector_bins(self, nbins_radial, nbins_azimuthal, inner, outer),
                   nbins_radial, nbins_azimuthal)

\* ------------------------------------------------------------------------
\* Polar binning of values as a state machine
\* ------------------------------------------------------------------------
\* the number of ensemble slices of a pattern
Slices(self) == IF Len(self.array.shape) = 2 THEN 1 ELSE self.array.shape[1]

\* the ways of chunking n slices: the sequences of positive sizes adding up
\* to n
Chunkings(n) == {chunks \in SeqsUpTo(1..n, n) : SumOf(chunks) = n}

\* the fills of a pattern with n slices of npixels pixels
Fills(n, npixels) ==
    {[name |-> "ones", slice |-> 0, pixel |-> 0], [name |-> "ramp", slice |-> 0, pixel |-> 0]}
    \cup {[name |-> "impulse", slice |-> n, pixel |-> p] : p \in 1..npixels}

\* the patterns binned: shifted patterns of (MaxGpts - 1)..MaxGpts points a
\* side with sampling (1, 1) and no or one ensemble dimension of up to
\* MaxLen + 1 slices, with every fill, and the all-ones 64 x 64 pattern
BinningPool ==
    {[self |-> DiffractionPatterns([shape |-> ens \o <<n0, n1>>], <<1, 1>>, TRUE,
                                   [k \in 1..Len(ens) |-> DefaultAxis("ScanAxis")], FreeMetadata),
      fill |-> fill] :
        ens \in {<<>>} \cup {<<n>> : n \in 1..(MaxLen + 1)},
        n0 \in (MaxGpts - 1)..MaxGpts, n1 \in (MaxGpts - 1)..MaxGpts,
        fill \in Fills(MaxLen + 1, MaxGpts * MaxGpts)}
    \cup {[self |-> DiffractionPatterns([shape |-> <<64, 64>>], <<1, 1>>, TRUE, <<>>, FreeMetadata),
           fill |-> [name |-> "ones", slice |-> 0, pixel |-> 0]]}

BinningInit ==
    /\ call \in {[f |-> "none", self |-> p.self, fill |-> p.fill] :
                    p \in {q \in BinningPool :
                              /\ q.fill.slice <= Slices(q.self)
                              /\ q.fill.pixel <= q.self.array.shape[Len(q.self.array.shape) - 1]
                                                    * q.self.array.shape[Len(q.self.array.shape)]}}
    /\ ret = NoRet
    /\ a = NoAxis
    /\ axres = [op |-> "none", other |-> NoAxis, item |-> Scalar(0), out |-> NoOutcome]
    /\ m = NoMeasurement
    /\ mres = NoOp
    /\ data = <<>>
    /\ red = [method |-> "none", out |-> <<>>]
    /\ store = EmptyStore
    /\ heap = EmptyHeap

\* the bins asked for: one or two radial and azimuthal bins between
\* inner < outer, and nbins_radial=4, nbins_azimuthal=1, inner=0, outer=40
BinningArgs ==
    {[nbins_radial |-> nr, nbins_azimuthal |-> na, inner |-> inner, outer |-> outer] :
        nr \in 1..2, na \in 1..2, inner \in 0..1, outer \in 1..((MaxGpts \div 2) + 1)}
    \cup {[nbins_radial |-> 4, nbins_azimuthal |-> 1, inner |-> 0, outer |-> 40]}

\* self.polar_binning(nbins_radial, nbins_azimuthal, inner, outer) computed
\* on an array chunked along its ensemble dimension
PolarBinningArray ==
    /\ call.f = "none"
    /\ \E arg \in BinningArgs, chunks \in Chunkings(Slices(call.self)) :
          /\ arg.inner < arg.outer
          /\ call' = [f |-> "polar_binning", self |-> call.self, fill |-> call.fill,
                      arg |-> arg, chunks |-> chunks]
          /\ LET out == polar_binning(call.self, arg.nbins_radial, arg.nbins_azimuthal,
                                      arg.inner, arg.outer, 0)
             IN  ret' = IF out.status = "ok"
                        THEN [status |-> "ok",
                              array |-> polar_binning_array(call.self, call.fill, chunks,
                                                            arg.nbins_radial, arg.nbins_azimuthal,
                                                            arg.inner, arg.outer)]
                        ELSE [status |-> out.status]
    /\ UNCHANGED <<a, axres, m, mres, data, red, store, heap>>

BinningNext == PolarBinningArray

SpecBinning == BinningInit /\ [][BinningNext]_vars

\* ------------------------------------------------------------------------
\* measure.py: the operations followed by reference
\* ------------------------------------------------------------------------
\* The heap is the sequence of the objects in memory; a reference is a
\* position in it, 0 is None.  A cell is an array (its shape), a list (the
\* references it holds), an axis (an axis object or a dict describing an
\* axis), a dict (a free-form metadata dict) or a measurement: its class
\* and parameters in obj, and the references _array, _axes_metadata and
\* _metadata.
NoCell ==
    [t |-> "none", shape |-> <<>>, items |-> <<>>, axis |-> NoAxis, value |-> PyNone,
     obj |-> NoMeasurement, _array |-> 0, _axes_metadata |-> 0, _metadata |-> 0]

ArrayCell(shape) == [NoCell EXCEPT !.t = "array", !.shape = shape]
ListCell(items) == [NoCell EXCEPT !.t = "list", !.items = items]
AxisCell(axis) == [NoCell EXCEPT !.t = "axis", !.axis = axis]
DictCell(value) == [NoCell EXCEPT !.t = "dict", !.value = value]

\* AbstractMeasurement.__init__: the references handed in are kept
MeasurementCell(obj, array, list, metadata) ==
    [NoCell EXCEPT !.t = "measurement", !.obj = obj, !._array = array,
                   !._axes_metadata = list, !._metadata = metadata]

\* the measurements in memory
Measurements(h) == {r \in 1..Len(h) : h[r].t = "measurement"}

\* the axes a list holds
AxesOf(h, list) == [k \in 1..Len(h[list].items) |-> h[h[list].items[k]].axis]

\* the value behind a _metadata reference
MetadataOf(h, ref) ==
    IF ref = 0 THEN PyNone
    ELSE IF h[ref].t = "list" THEN PyList(AxesOf(h, ref))
    ELSE h[ref].value

\* the measurement behind a reference, as the record the operations on
\* values take
Resolve(h, self) ==
    [h[self].obj EXCEPT !.array = [shape |-> h[h[self]._array].shape],
                        !._axes_metadata = AxesOf(h, h[self]._axes_metadata),
                        !._metadata = MetadataOf(h, h[self]._metadata)]

\* what an operation gives: the heap after it, the reference returned (0
\* when it raised) and its status
Referred(h, ref, status) == [heap |-> h, ref |-> ref, status |-> status]

\* copy.deepcopy(self.axes_metadata): a new list of new axes, the copies of
\* the ensemble axes followed by the base axes dicts
deepcopy_axes_metadata(h, self) ==
    LET axes == axes_metadata(Resolve(h, self))
        h1 == h \o [k \in 1..Len(axes) |-> AxisCell(axes[k])]
    IN  Referred(h1 \o <<ListCell([k \in 1..Len(axes) |-> Len(h) + k])>>,
                 Len(h) + Len(axes) + 1, "ok")

\* self.axes_metadata, and copy.copy of it: a new list holding self's own
\* ensemble axes followed by new base axes dicts
shared_axes_metadata(h, self) ==
    LET base == base_axes_metadata(Resolve(h, self))
        h1 == h \o [k \in 1..Len(base) |-> AxisCell(base[k])]
    IN  Referred(h1 \o <<ListCell(h[h[self]._axes_metadata].items
                                      \o [k \in 1..Len(base) |-> Len(h) + k])>>,
                 Len(h) + Len(base) + 1, "ok")

\* copy.copy(self.metadata): None stays None, a dict gives a new dict with
\* the same items
copy_metadata(h, self) ==
    IF h[self]._metadata = 0 THEN Referred(h, 0, "ok")
    ELSE Referred(Append(h, h[h[self]._metadata]), Len(h) + 1, "ok")

\* np.ndarray.copy or a new array: self._array when kept
array_for(h, self, shape, fresh) ==
    IF fresh THEN Referred(Append(h, ArrayCell(shape)), Len(h) + 1, "ok")
    ELSE Referred(h, h[self]._array, "ok")

\* a copy that hands back the operand itself
copy_returning_self(h, self, copy_array) == Referred(h, self, "ok")

\* Images.copy and DiffractionPatterns.copy: a new measurement on the same
\* or a copied array with a deep copy of axes_metadata; Images.copy passes
\* no metadata, DiffractionPatterns.copy a second deep copy of axes_metadata
ref_copy(h, self, copy_array) ==
    LET array == array_for(h, self, h[h[self]._array].shape, copy_array)
        axes == deepcopy_axes_metadata(array.heap, self)
        metadata == IF h[self].obj.kind = "Images" THEN Referred(axes.heap, 0, "ok")
                    ELSE deepcopy_axes_metadata(axes.heap, self)
    IN  Referred(Append(metadata.heap,
                        MeasurementCell(h[self].obj, array.ref, axes.ref, metadata.ref)),
                 Len(metadata.heap) + 1, "ok")

\* HasAxesMetadata._remove_axes_metadata: a new list of the ensemble axes
\* that are not removed
ref_remove_axes_metadata(h, self, axes) ==
    Referred(Append(h, ListCell(RemoveAt(h[h[self]._axes_metadata].items, axes, 0))),
             Len(h) + 1, "ok")

\* AbstractMeasurement._reduction, axes a set of valid axes or None
ref_reduction(h, self, axes) ==
    LET ax == IF axes.given THEN axes.set ELSE collection_axes(Resolve(h, self))
    IN  IF _check_is_base_axes(Resolve(h, self), ax)
        THEN Referred(h, 0, "RuntimeError: base axes cannot be reduced")
        ELSE LET metadata == ref_remove_axes_metadata(h, self, ax)
                 new_copy == ref_copy(metadata.heap, self, FALSE)
                 reduced == ArrayCell(ReducedShape(h[h[self]._array].shape, ax))
                 h1 == Append(new_copy.heap, reduced)
             IN  Referred([h1 EXCEPT ![new_copy.ref]._array = Len(h1),
                                     ![new_copy.ref]._axes_metadata = metadata.ref],
                          new_copy.ref, "ok")

\* the heap once the local name ref is gone: the object it named is no
\* longer a measurement in memory unless it is self
dropped(h, ref, self) == IF ref = self THEN h ELSE [h EXCEPT ![ref].t = "unreferenced"]

\* AbstractMeasurement._get_measurements, items a tuple of valid components:
\* the copy is made and written to before the base axes are checked
ref_get_measurements(h, self, items) ==
    LET new_copy == ref_copy(h, self, FALSE)
        indexed == ArrayCell(IndexedShape(h[h[self]._array].shape, items.comps))
        h1 == Append(new_copy.heap, indexed)
        h2 == [h1 EXCEPT ![new_copy.ref]._array = Len(h1)]
        metadata == ref_remove_axes_metadata(h2, self, removed_axes(items))
        h3 == [metadata.heap EXCEPT ![new_copy.ref]._axes_metadata = metadata.ref]
    IN  IF _check_is_base_axes(Resolve(h, self), removed_axes(items))
        THEN Referred(dropped(h3, new_copy.ref, self), 0,
                      "RuntimeError: base axes cannot be indexed")
        ELSE Referred(h3, new_copy.ref, "ok")

\* Images.subtract and Images.tile: a new array, copy.copy(self.axes_metadata)
\* and copy.copy(self.metadata)
ref_shallow(h, self, shape) ==
    LET array == array_for(h, self, shape, TRUE)
        axes == shared_axes_metadata(array.heap, self)
        metadata == copy_metadata(axes.heap, self)
    IN  Referred(Append(metadata.heap,
                        MeasurementCell(h[self].obj, array.ref, axes.ref, metadata.ref)),
                 Len(metadata.heap) + 1, "ok")

\* Images.subtract
ref_subtract(h, self, other) ==
    LET out == Images_subtract(Resolve(h, self), Resolve(h, other))
    IN  IF out.status # "ok" THEN Referred(h, 0, out.status)
        ELSE ref_shallow(h, self, out.val.array.shape)

\* Images.tile with reps = 1
ref_tile(h, self) == ref_shallow(h, self, h[h[self]._array].shape)

\* DiffractionPatterns.block_direct: a new array, self.axes_metadata and
\* self.metadata itself
ref_block_direct(h, self) ==
    LET array == array_for(h, self, h[h[self]._array].shape, TRUE)
        axes == shared_axes_metadata(array.heap, self)
    IN  Referred(Append(axes.heap,
                        MeasurementCell(h[self].obj, array.ref, axes.ref, h[self]._metadata)),
                 Len(axes.heap) + 1, "ok")

\* what a measurement holds: its array by reference, its ensemble axes
\* metadata and free-form metadata by reference and by value, and its
\* parameters
Held(h, self) ==
    [array |-> h[self]._array, list |-> h[self]._axes_metadata,
     axes |-> AxesOf(h, h[self]._axes_metadata), dict |-> h[self]._metadata,
     metadata |-> MetadataOf(h, h[self]._metadata), obj |-> h[self].obj]

\* what a measurement shows: its ensemble axes metadata and free-form
\* metadata by value
Shown(h, self) ==
    [axes |-> AxesOf(h, h[self]._axes_metadata), metadata |-> MetadataOf(h, h[self]._metadata)]

\* ------------------------------------------------------------------------
\* Measurements in memory as a state machine: transforms derive new
\* measurements from those in memory, and a client changes what one of
\* them holds
\* ------------------------------------------------------------------------
\* most measurements made
MaxObjects == 2

\* the heap holding one measurement: its array, its ensemble axes, their
\* list, its metadata and the measurement
HeapOf(obj, shape, axes, metadata) ==
    LET n == Len(axes)
    IN  <<ArrayCell(shape)>> \o [k \in 1..n |-> AxisCell(axes[k])]
        \o <<ListCell([k \in 1..n |-> k + 1])>>
        \o (IF metadata = PyNone THEN <<>> ELSE <<DictCell(metadata)>>)
        \o <<MeasurementCell(obj, 1, n + 2, IF metadata = PyNone THEN 0 ELSE n + 3)>>

\* Images and DiffractionPatterns over up to MaxEnsemble ensemble axes, an
\* axis object or a dict each, with a dict or None as metadata
RefPool ==
    {HeapOf(IF kind = "Images" THEN Images([shape |-> <<>>], <<1, 2>>, <<>>, PyNone)
            ELSE DiffractionPatterns([shape |-> <<>>], <<1, 1>>, TRUE, <<>>, PyNone),
            [k \in 1..(Len(ens) + 2) |-> MaxLen], ens, metadata) :
        kind \in {"Images", "DiffractionPatterns"},
        ens \in SeqsUpTo({DefaultAxis("ScanAxis"), BaseAxisDict("scan", "positions", 1)},
                         MaxEnsemble),
        metadata \in {FreeMetadata, PyNone}}

\* the record of the last call: the operation, the measurement it was
\* called on, what it gave, what that measurement held before the call and
\* what every measurement showed before it
Called(op, self, out) ==
    [op |-> op, self |-> self, status |-> out.status, ref |-> out.ref,
     held |-> Held(heap, self),
     shown |-> [r \in Measurements(heap) |-> Shown(heap, r)]]

RefInit ==
    /\ heap \in RefPool
    /\ mres = [op |-> "none", self |-> 0, status |-> "none", ref |-> 0]
    /\ m = NoMeasurement
    /\ a = NoAxis
    /\ axres = [op |-> "none", other |-> NoAxis, item |-> Scalar(0), out |-> NoOutcome]
    /\ data = <<>>
    /\ red = [method |-> "none", out |-> <<>>]
    /\ call = NoCall
    /\ ret = NoRet
    /\ store = EmptyStore

\* a transform of the measurement self, while fewer than MaxObjects
\* measurements were made
Transform(op, self, out) ==
    /\ Cardinality({r \in 1..Len(heap) : heap[r].t \in {"measurement", "unreferenced"}})
          < MaxObjects
    /\ heap' = out.heap
    /\ mres' = Called(op, self, out)
    /\ UNCHANGED <<a, axres, m, data, red, call, ret, store>>

\* self.copy(copy_array)
RefCopy ==
    \E self \in Measurements(heap), copy_array \in BOOLEAN :
        Transform("copy", self, ref_copy(heap, self, copy_array))

\* self.mean(axes), self.sum(axes), self.std(axes)
RefReduction ==
    \E self \in Measurements(heap), op \in {"mean", "sum", "std"} :
        \E axes \in {[given |-> FALSE, set |-> {}]}
                    \cup {[given |-> TRUE, set |-> {k}] :
                             k \in 0..(Len(heap[heap[self]._array].shape) - 1)} :
            Transform(op, self, ref_reduction(heap, self, axes))

\* self[0, ..., 0] with up to as many indices as the array has dimensions
RefGetItem ==
    \E self \in Measurements(heap) :
        \E n \in 1..Len(heap[heap[self]._array].shape) :
            Transform("getitem", self,
                      ref_get_measurements(heap, self, TupleItem([k \in 1..n |-> Scalar(0)])))

\* self.subtract(other)
RefSubtract ==
    \E self \in Measurements(heap), other \in Measurements(heap) :
        /\ heap[self].obj.kind = "Images"
        /\ heap[other].obj.kind = "Images"
        /\ Transform("subtract", self, ref_subtract(heap, self, other))

\* self.tile(1)
RefTile ==
    \E self \in Measurements(heap) :
        /\ heap[self].obj.kind = "Images"
        /\ Transform("tile", self, ref_tile(heap, self))

\* self.block_direct()
RefBlockDirect ==
    \E self \in Measurements(heap) :
        /\ heap[self].obj.kind = "DiffractionPatterns"
        /\ Transform("block_direct", self, ref_block_direct(heap, self))

\* a client's change of what the measurement self holds, one between two
\* transforms
Change(op, self, h) ==
    /\ mres.op \notin {"pop", "label", "metadata"}
    /\ heap' = h
    /\ heap' # heap
    /\ mres' = Called(op, self, Referred(h, 0, "ok"))
    /\ UNCHANGED <<a, axres, m, data, red, call, ret, store>>

\* self._axes_metadata.pop()
ChangeList ==
    \E self \in Measurements(heap) :
        LET list == heap[self]._axes_metadata
        IN  /\ heap[list].items # <<>>
            /\ Change("pop", self,
                      [heap EXCEPT ![list].items = SubSeq(@, 1, Len(@) - 1)])

\* self._axes_metadata[k].label = 'changed' (['label'] on a dict)
ChangeAxis ==
    \E self \in Measurements(heap) :
        \E k \in 1..Len(heap[heap[self]._axes_metadata].items) :
            Change("label", self,
                   [heap EXCEPT ![heap[heap[self]._axes_metadata].items[k]].axis.label = "changed"])

\* self.metadata['energy'] = 2
ChangeMetadata ==
    \E self \in Measurements(heap) :
        /\ heap[self]._metadata # 0
        /\ heap[heap[self]._metadata].t = "dict"
        /\ Change("metadata", self,
                  [heap EXCEPT ![heap[self]._metadata].value = PyDict({<<"energy", 2>>})])

RefNext ==
    \/ RefCopy
    \/ RefReduction
    \/ RefGetItem
    \/ RefSubtract
    \/ RefTile
    \/ RefBlockDirect
    \/ ChangeList
    \/ ChangeAxis
    \/ ChangeMetadata

SpecRefs == RefInit /\ [][RefNext]_vars

\* ------------------------------------------------------------------------
\* Properties of the measurement operations
\* ------------------------------------------------------------------------
\* whether the pending call returned a measurement
ReturnedMeasurement == mres.out.status = "ok" /\ mres.out.val.kind # "None"

\* the number of dimensions of x's array is the number of its ensemble axes
\* metadata entries plus the number of base axes of its class
RankMatches(x) ==
    Len(x.array.shape) = Len(x._axes_metadata) + (IF x.kind = "LineProfiles" THEN 1 ELSE 2)

\* C1: every measurement, constructed or returned by a transform, has as
\* many array dimensions as ensemble axes metadata entries plus base axes,
\* and a copy has as many ensemble axes metadata entries as its original.
C1_RankIsEnsemblePlusBase ==
    /\ RankMatches(m)
    /\ ReturnedMeasurement => RankMatches(mres.out.val)
    /\ (mres.op = "copy" /\ ReturnedMeasurement) =>
            Len(mres.out.val._axes_metadata) = Len(m._axes_metadata)

\* the last dimensions of x, as many as its class has base axes
LastDimensions(x) ==
    {Len(x.array.shape) - k : k \in 1..(IF x.kind = "LineProfiles" THEN 1 ELSE 2)}

\* seq without the entries at the 0-based positions in A
Without(seq, A) ==
    LET kept == {p \in 1..Len(seq) : (p - 1) \notin A}
    IN  [j \in 1..Cardinality(kept) |->
            seq[CHOOSE p \in kept : Cardinality({q \in kept : q <= p}) = j]]

\* C2: mean over axes that are no base axes (all leading non-base dimensions
\* when none are given) returns a measurement with exactly those entries
\* removed from the ensemble axes metadata and exactly those dimensions
\* collapsed; mean over a base axis raises the reduce-on-base-axis error.
C2_MeanRemovesAxes ==
    mres.op = "mean" =>
        LET A == IF mres.arg.axes.given THEN mres.arg.axes.set
                 ELSE {k \in 0..(Len(m.array.shape) - 1) : k \notin LastDimensions(m)}
        IN  IF A \cap LastDimensions(m) = {}
            THEN /\ ReturnedMeasurement
                 /\ mres.out.val._axes_metadata = Without(m._axes_metadata, A)
                 /\ mres.out.val.array.shape = Without(m.array.shape, A)
            ELSE mres.out.status = "RuntimeError: base axes cannot be reduced"

\* the sum of the values along axis 0, per remaining position
ElementwiseSum(rows) ==
    [j \in 1..Len(rows[1]) |-> Rational(SumOf([i \in 1..Len(rows) |-> rows[i][j]]), 1)]

\* C3: sum holds the element-wise sum over the reduced axis, mean the mean
\* and std the standard deviation.
C3_NamedStatistic ==
    /\ red.method = "sum" => red.out = ElementwiseSum(data)
    /\ red.method = "mean" => red.out = reduce_axis0("da.mean", data)
    /\ red.method = "std" => red.out = reduce_axis0("da.std", data)

\* the positions of an index expression that hold a scalar: the Number
\* itself, or the Number components of a tuple
ScalarPositions(items) ==
    IF items.form = "bare" THEN {}
    ELSE {k - 1 : k \in {j \in 1..Len(items.comps) : items.comps[j].kind = "number"}}

\* C4: m[items] for an index expression the array accepts: when a scalar
\* sits at a base axis the index-on-base-axis error is raised; otherwise the
\* call succeeds, the ensemble axes at the scalar positions are removed from
\* the metadata and those dimensions collapsed.
C4_ScalarIndexRemovesAxis ==
    (mres.op = "getitem" /\ ValidIndexing(m.array.shape, mres.arg.items.comps)) =>
        LET removed == ScalarPositions(mres.arg.items)
        IN  IF removed \cap LastDimensions(m) # {}
            THEN mres.out.status = "RuntimeError: base axes cannot be indexed"
            ELSE /\ ReturnedMeasurement
                 /\ mres.out.val._axes_metadata = Without(m._axes_metadata, removed)
                 /\ Len(mres.out.val.array.shape) = Len(m.array.shape) - Cardinality(removed)

\* C5: after m[items] succeeded with a tuple of components, an ordinal
\* ensemble axis under a non-scalar component is still in the metadata, its
\* values are the selected ones, and it is as long as its array dimension.
C5_RangeIndexNarrowsAxis ==
    (mres.op = "getitem" /\ mres.arg.items.form = "tuple" /\ ReturnedMeasurement) =>
        LET comps == mres.arg.items.comps
            ensemble == Len(m.array.shape) - 2
        IN  \A p \in 1..Len(comps) :
                (/\ comps[p].kind # "number"
                 /\ p <= ensemble
                 /\ p <= Len(m._axes_metadata)
                 /\ m._axes_metadata[p].cls \in OrdinalClasses) =>
                    LET q == p - Cardinality({j \in 1..(p - 1) : comps[j].kind = "number"})
                        r == mres.out.val
                    IN  /\ q <= Len(r._axes_metadata)
                        /\ r._axes_metadata[q].cls = m._axes_metadata[p].cls
                        /\ r._axes_metadata[q].values
                              = ArraySelect(m._axes_metadata[p].values, comps[p])
                        /\ Len(r._axes_metadata[q].values) = r.array.shape[q]

\* the parameters a measurement class keeps
Parameters(x) ==
    <<x.sampling, x.angular_sampling, x.fftshift, x.radial_sampling, x.azimuthal_sampling,
      x.radial_offset, x.azimuthal_offset, x.start, x.end>>

\* C6: copy with copy_array given or omitted (true) returns, for every
\* class, a measurement of that class with equal ensemble axes metadata,
\* equal free-form metadata and equal parameters, whose array is a copy when
\* copy_array is true and the operand's own array when it is false.
C6_CopyPreserves ==
    mres.op = "copy" =>
        /\ ReturnedMeasurement
        /\ mres.out.val.kind = m.kind
        /\ mres.out.val._axes_metadata = m._axes_metadata
        /\ mres.out.val._metadata = m._metadata
        /\ Parameters(mres.out.val) = Parameters(m)
        /\ mres.out.val.array = m.array
        /\ mres.out.array = (IF mres.arg.copy_array = "False" THEN "same" ELSE "copy")

\* two field values are equal, an array and a tuple being compared by their
\* elements
SameValue(key, x, y) ==
    IF key \in PointFields THEN (x.py = "None") = (y.py = "None") /\ x.elems = y.elems
    ELSE x = y

\* C11: the encoded form of an axis holds its fields and its class name
\* under 'type', and no array; decoding it gives an axis of exactly that
\* class equal in every field; decoding a dict whose tag names no axis class
\* raises.
C11_SerializationRoundTrip ==
    /\ call.f = "axis_to_dict" =>
          /\ DOMAIN ret.d = Fields(a.cls) \cup {"type"}
          /\ ret.d["type"] = a.cls
          /\ \A key \in PointFields \cap DOMAIN ret.d : ret.d[key].py # "ndarray"
    /\ (call.f = "axis_from_dict" /\ call.encoded) =>
          /\ ret.status = "ok"
          /\ ret.obj = "axis"
          /\ ret.val.cls = a.cls
          /\ \A key \in Fields(a.cls) : SameValue(key, FieldOf(ret.val, key), FieldOf(a, key))
    /\ (call.f = "axis_from_dict" /\ call.d["type"] \notin AxisClasses) => ret.status # "ok"

\* the length of the longest run of ScanAxis entries at the end of E, at
\* most 2
TrailingRun(E) ==
    CHOOSE j \in 0..2 :
        /\ j <= Len(E)
        /\ \A k \in 1..j : E[Len(E) - k + 1].cls = "ScanAxis"
        /\ (j < 2 /\ j < Len(E)) => E[Len(E) - j].cls # "ScanAxis"

\* C12: scan_axes is the index range of the longest run of ScanAxis entries
\* at the end of the ensemble axes, at most 2 long: contiguous, ending at
\* the last ensemble index, over ScanAxis entries only, and empty exactly
\* when the last ensemble axis is no ScanAxis or there is none; scan_shape
\* and scan_sampling hold the lengths and samplings at those indices.
C12_ScanAxes ==
    LET E == call.self.ensemble_axes_metadata
        n == Len(E)
        j == TrailingRun(E)
    IN  /\ call.f = "scan_axes" =>
              /\ Len(ret.val) = j
              /\ \A k \in 1..Len(ret.val) : ret.val[k] = n - Len(ret.val) + k - 1
              /\ \A k \in 1..Len(ret.val) : E[ret.val[k] + 1].cls = "ScanAxis"
              /\ (ret.val = <<>>) <=> (n = 0 \/ E[n].cls # "ScanAxis")
        /\ call.f = "scan_shape" =>
              ret.val = [k \in 1..j |-> call.self.ensemble_shape[n - j + k]]
        /\ call.f = "scan_sampling" =>
              ret.val = [k \in 1..j |-> E[n - j + k].sampling]

\* C12 witness: of three scan axes the last two are returned
C12_Witness ==
    /\ call.f = "scan_axes"
    /\ Len(call.self.ensemble_axes_metadata) = 3
    /\ \A k \in 1..3 : call.self.ensemble_axes_metadata[k].cls = "ScanAxis"
    /\ ret.val = <<1, 2>>

\* C13: interpolate raises ValueError when neither sampling nor gpts is
\* given, when both are given, and for every method and boundary other than
\* 'fft' with 'periodic'; otherwise it returns an Images whose base shape is
\* the target grid: gpts, or the extent divided by the sampling, rounded up.
C13_InterpolateArguments ==
    mres.op = "interpolate" =>
        LET arg == mres.arg
            shape == mres.out.val.array.shape
            target == IF arg.gpts.py # "None" THEN Twice(arg.gpts)
                      ELSE [k \in 1..2 |-> CeilDiv(extent(m)[k], Twice(arg.sampling)[k])]
        IN  IF \/ (arg.sampling.py = "None") = (arg.gpts.py = "None")
               \/ ~(arg.method = "fft" /\ arg.boundary = "periodic")
            THEN mres.out.status = "ValueError"
            ELSE /\ mres.out.status = "ok"
                 /\ mres.out.val.kind = "Images"
                 /\ SubSeq(shape, Len(shape) - 1, Len(shape)) = target

\* C14: is_compatible is true exactly when the shapes, the samplings and the
\* axes metadata of the two Images are equal, and subtract raises whenever
\* one of the three differs.
C14_CompatibleSubtract ==
    LET other == mres.arg.other
        equal == /\ m.array.shape = other.array.shape
                 /\ m.sampling = other.sampling
                 /\ m._axes_metadata = other._axes_metadata
    IN  /\ mres.op = "is_compatible" => (mres.out.bool <=> equal)
        /\ (mres.op = "subtract" /\ ~equal) => mres.out.status \notin {"ok", "none"}

\* the limits of a Fourier space axis of n points sampled at d
ExtentOf(n, d) ==
    IF n % 2 = 0 THEN <<-((n \div 2) * d), (n \div 2 - 1) * d>>
    ELSE <<-(((n - 1) \div 2) * d), ((n - 1) \div 2) * d>>

\* the last two lengths of the array of x
BaseLengths(x) == SubSeq(x.array.shape, Len(x.array.shape) - 1, Len(x.array.shape))

\* C15: fourier_space_extent gives for each base axis, from its own length n
\* and sampling d, (-(n/2) d, (n/2 - 1) d) for even n and
\* (-((n-1)/2) d, ((n-1)/2) d) for odd n, so (-32, 31) for n = 64 and
\* (-31, 31) for n = 63 at d = 1; max_angles is (n0 // 2 * d0, n1 // 2 * d1).
C15_FourierSpaceExtent ==
    LET n == BaseLengths(m)
        d == m.angular_sampling
    IN  /\ mres.op = "fourier_space_extent" =>
              /\ mres.out.value = <<ExtentOf(n[1], d[1]), ExtentOf(n[2], d[2])>>
              /\ \A k \in 1..2 : (n[k] = 64 /\ d[k] = 1) => mres.out.value[k] = <<-32, 31>>
              /\ \A k \in 1..2 : (n[k] = 63 /\ d[k] = 1) => mres.out.value[k] = <<-31, 31>>
        /\ mres.op = "max_angles" =>
              mres.out.value = <<(n[1] \div 2) * d[1], (n[2] \div 2) * d[2]>>

\* C15 witness: the extent of a 63 by 64 pattern sampled at 2 and 1
C15_Witness ==
    /\ mres.op = "fourier_space_extent"
    /\ BaseLengths(m) = <<63, 64>>
    /\ m.angular_sampling = <<2, 1>>
    /\ mres.out.value = <<<<-62, 62>>, <<-32, 31>>>>

\* the outer angle a binning call works with
OuterAngle ==
    IF mres.op = "radial_binning"
    THEN IF mres.arg.outer.py = "None"
         THEN Min2((BaseLengths(m)[1] \div 2) * m.angular_sampling[1],
                   (BaseLengths(m)[2] \div 2) * m.angular_sampling[2])
         ELSE mres.arg.outer.val[1]
    ELSE mres.arg.outer

AngleAt(n, d, i) == (IF n % 2 = 0 THEN -((n \div 2) * d) ELSE -(((n - 1) \div 2) * d)) + (i - 1) * d

\* C17: block_direct with a radius r given returns the pattern with exactly
\* the pixels at an angular distance below r set to zero, every other pixel,
\* those at distance r included, as it was, and the samplings and fftshift
\* carried over.
C17_BlockDirect ==
    (call.f = "block_direct" /\ call.radius.py = "number") =>
        LET self == call.self
            r == call.radius.val[1]
        IN  /\ DOMAIN ret.pixels = DOMAIN self.pixels
            /\ \A p \in DOMAIN self.pixels :
                  LET x == AngleAt(self.shape[1], self.angular_sampling[1], p[1])
                      y == AngleAt(self.shape[2], self.angular_sampling[2], p[2])
                  IN  ret.pixels[p] = IF x * x + y * y < r * r THEN 0 ELSE self.pixels[p]
            /\ ret.angular_sampling = self.angular_sampling
            /\ ret.fftshift = self.fftshift

\* floor(x / y) for y > 0
FloorDiv(x, y) == x \div y

\* the sum of the bins at the rows and columns given, for ensemble slice e
BinSum(self, e, rows, cols) ==
    SumOf([k \in 1..(self.shape[1] * self.shape[2]) |->
              LET r == ((k - 1) \div self.shape[2]) + 1
                  c == ((k - 1) % self.shape[2]) + 1
              IN  IF r \in rows /\ c \in cols THEN self.bins[e][<<r, c>>] ELSE 0])

\* the rows or columns the index range lo..hi-1 covers of n, by the rules
\* of a slice
IndexRange(lo, hi, n) ==
    {k \in 1..n : (IF lo < 0 THEN lo + n ELSE lo) < k /\ k <= (IF hi < 0 THEN hi + n ELSE hi)}

\* C18: integrate with detector_regions sums exactly the bins at those flat
\* indices whatever limits are passed; otherwise a limit becomes the index
\* floor((limit - offset) / sampling), with the radial offset and sampling
\* for radial limits and the azimuthal ones for azimuthal limits, and the
\* result is the sum over the index ranges, per ensemble slice.
C18_PolarIntegrate ==
    call.f = "integrate" =>
        LET self == call.self
            R == self.shape[1]
            C == self.shape[2]
        IN  /\ ret.status = "ok"
            /\ Len(ret.array) = Len(self.bins)
            /\ \A e \in 1..Len(self.bins) :
                  IF call.detector_regions.py # "None"
                  THEN ret.array[e] =
                          SumOf([j \in 1..Len(call.detector_regions.val) |->
                                    self.bins[e][<<(call.detector_regions.val[j] \div C) + 1,
                                                   (call.detector_regions.val[j] % C) + 1>>]])
                  ELSE LET rows == IF call.radial_limits.py = "None" THEN 1..R
                                   ELSE IndexRange(
                                            FloorDiv(call.radial_limits.val[1] - self.radial_offset,
                                                     self.radial_sampling),
                                            FloorDiv(call.radial_limits.val[2] - self.radial_offset,
                                                     self.radial_sampling), R)
                           cols == IF call.azimutal_limits.py = "None" THEN 1..C
                                   ELSE IndexRange(
                                            FloorDiv(call.azimutal_limits.val[1]
                                                        - self.azimuthal_offset,
                                                     self.azimuthal_sampling),
                                            FloorDiv(call.azimutal_limits.val[2]
                                                        - self.azimuthal_offset,
                                                     self.azimuthal_sampling), C)
                       IN  ret.array[e] = BinSum(self, e, rows, cols)

\* C19: a measurement of any class written with to_zarr and read back with
\* from_zarr is a measurement of the same class with the same array, the
\* same ensemble axes metadata, the same metadata and the same parameters.
C19_ZarrRoundTrip ==
    /\ mres.op = "to_zarr" => mres.out.status = "ok"
    /\ mres.op = "from_zarr" =>
          /\ mres.out.status = "ok"
          /\ mres.out.val.kind = m.kind
          /\ mres.out.val.array = m.array
          /\ mres.out.val._axes_metadata = m._axes_metadata
          /\ mres.out.val._metadata = m._metadata
          /\ Parameters(mres.out.val) = Parameters(m)

RECURSIVE SumOver(_, _, _, _)
\* the sum over the pixels of the set P of their values in slice s
SumOver(P, fill, s, npixels) ==
    IF P = {} THEN 0
    ELSE LET p == CHOOSE q \in P : TRUE
         IN  Value(fill, s, p, npixels) + SumOver(P \ {p}, fill, s, npixels)

\* the pixels of a pattern whose angle lies in [lo, hi)
Annulus(self, lo, hi) ==
    LET n == Len(self.array.shape)
        n0 == self.array.shape[n - 1]
        n1 == self.array.shape[n]
        r2(p) == (((p - 1) \div n1) - (n0 \div 2)) * (((p - 1) \div n1) - (n0 \div 2))
                 + (((p - 1) % n1) - (n1 \div 2)) * (((p - 1) % n1) - (n1 \div 2))
    IN  {p \in 1..(n0 * n1) : lo * lo <= r2(p) /\ r2(p) < hi * hi}

\* C20: polar_binning gives, for every ensemble slice and every bin, the sum
\* of the values of exactly the pixels assigned to that bin, whatever the
\* chunking of the ensemble dimension; and on the all-ones 64 x 64 pattern
\* with angular_sampling (1, 1), polar_binning(4, 1, 0, 40) completes and
\* each bin holds the number of pixels of its annulus.
C20_PolarBinningAggregation ==
    call.f = "polar_binning" =>
        LET self == call.self
            arg == call.arg
            n == Len(self.array.shape)
            npixels == self.array.shape[n - 1] * self.array.shape[n]
            assigned(b) == {p \in 1..npixels :
                               bin_label(self, p, arg.nbins_radial, arg.nbins_azimuthal,
                                         arg.inner, arg.outer) = b}
        IN  /\ ret.status = "ok" =>
                  /\ Len(ret.array) = Slices(self)
                  /\ \A s \in 1..Slices(self), r \in 1..arg.nbins_radial,
                        az \in 1..arg.nbins_azimuthal :
                        ret.array[s][r][az]
                           = SumOver(assigned((r - 1) * arg.nbins_azimuthal + az - 1),
                                     call.fill, s, npixels)
            /\ (/\ self.array.shape = <<64, 64>>
                /\ call.fill.name = "ones"
                /\ arg = [nbins_radial |-> 4, nbins_azimuthal |-> 1, inner |-> 0, outer |-> 40]) =>
                  /\ ret.status = "ok"
                  /\ \A r \in 1..4 :
                        ret.array[1][r][1] = Cardinality(Annulus(self, 10 * (r - 1), 10 * r))

\* the transforms of the reference-level model
Transforms == {"copy", "mean", "sum", "std", "getitem", "subtract", "tile", "block_direct"}

\* C21: after a reduction or an indexing that failed, and after every
\* transform that succeeded, the measurement it was called on holds the same
\* array reference, the same ensemble axes metadata list, the same free-form
\* metadata and the same parameters as before the call.
C21_OperandUnchanged ==
    mres.op \in Transforms => Held(heap, mres.self) = mres.held

\* an indexing of a base axis failed after the copy was made and written
\* to, on a measurement with ensemble axes and metadata
C21_Witness ==
    /\ mres.op = "getitem"
    /\ mres.status = "RuntimeError: base axes cannot be indexed"
    /\ mres.held.axes # <<>>
    /\ mres.held.dict # 0

\* C22: a change to the ensemble axes metadata list of a measurement, to an
\* axis in it or to its free-form metadata leaves the axes metadata and the
\* free-form metadata of every other measurement as they were, whether the
\* other is the one it was derived from or one derived from it.
C22_NoSharedMetadata ==
    mres.op \in {"pop", "label", "metadata"} =>
        \A r \in DOMAIN mres.shown : r # mres.self => Shown(heap, r) = mres.shown[r]

\* ------------------------------------------------------------------------
\* Properties of the axis operations
\* ------------------------------------------------------------------------
\* an axis with its values blanked: its class and every field but values
SansValues(x) == [x EXCEPT !.values = <<>>]

\* the 1-based positions seq[lo:hi] selects
SlicePositions(n, lo, hi) == (SliceBound(lo, n) + 1)..SliceBound(hi, n)

\* the 1-based position a valid Python index denotes
Position(n, i) == IF i >= 0 THEN i + 1 ELSE n + i + 1

\* r holds the elements of seq at the positions of P, in increasing order
IsSubsequenceAt(r, seq, P) ==
    /\ Len(r) = Cardinality(P)
    /\ \A p \in P : r[Cardinality({q \in P : q <= p})] = seq[p]

\* C7: concatenating two ordinal axes of the same concrete class whose
\* fields other than values agree gives a new axis of that class whose
\* values are a's followed by b's and whose other fields are a's; when a
\* field other than values differs the call raises.
C7_OrdinalConcatenate ==
    (axres.op = "concatenate" /\ a.cls \in OrdinalClasses /\ axres.other.cls = a.cls) =>
        LET b == axres.other
            out == axres.out
        IN  IF SansValues(a) = SansValues(b)
            THEN /\ out.status = "ok"
                 /\ out.val.cls = a.cls
                 /\ Len(out.val.values) = Len(a.values) + Len(b.values)
                 /\ \A k \in 1..Len(a.values) : out.val.values[k] = a.values[k]
                 /\ \A k \in 1..Len(b.values) : out.val.values[Len(a.values) + k] = b.values[k]
                 /\ SansValues(out.val) = SansValues(a)
            ELSE out.status = "RuntimeError"

C7_Witness ==
    /\ axres.op = "concatenate"
    /\ a.cls = "TiltAxis"
    /\ axres.other.cls = "TiltAxis"
    /\ a.values = <<1, 2>>
    /\ axres.other.values = <<2>>
    /\ axres.out.status = "ok"
    /\ axres.out.val.values = <<1, 2, 2>>

\* C8: a scalar index i valid for an ordinal axis gives an axis of the same
\* class holding the single value a.values[i] with the other fields kept,
\* and item_metadata(i) is the one-entry dict {a.label: a.values[i]}; on a
\* non-ordinal axis item_metadata is the empty dict.
C8_ScalarIndex ==
    LET i == axres.item.i
        n == Len(a.values)
        out == axres.out
    IN  /\ (axres.op = "getitem" /\ axres.item.kind = "number" /\ a.cls \in OrdinalClasses
                /\ -n <= i /\ i < n) =>
            /\ out.status = "ok"
            /\ out.val.cls = a.cls
            /\ Len(out.val.values) = 1
            /\ out.val.values[1] = a.values[Position(n, i)]
            /\ SansValues(out.val) = SansValues(a)
        /\ (axres.op = "item_metadata" /\ a.cls \in OrdinalClasses /\ -n <= i /\ i < n) =>
            /\ out.status = "ok"
            /\ out.md = {<<a.label, a.values[Position(n, i)]>>}
        /\ (axres.op = "item_metadata" /\ a.cls \notin OrdinalClasses) =>
            /\ out.status = "ok"
            /\ out.md = {}

C8_Witness ==
    /\ axres.op = "getitem"
    /\ axres.item = Scalar(1)
    /\ a.cls = "FrozenPhononsAxis"
    /\ a.values = <<1, 2>>
    /\ axres.out.status = "ok"
    /\ axres.out.val.values = <<2>>

\* C9 (state part): indexing a non-ordinal axis returns that very axis;
\* indexing an ordinal axis with a slice, an index list or a mask gives an
\* axis of the same class whose values are the selected elements in
\* selection order, with the other fields kept.
C9_SelectorIndexInv ==
    LET item == axres.item
        n == Len(a.values)
        out == axres.out
    IN  /\ (axres.op = "getitem" /\ a.cls \notin OrdinalClasses) =>
            /\ out.status = "ok"
            /\ out.ref = "self"
            /\ out.val = a
        /\ (axres.op = "getitem" /\ a.cls \in OrdinalClasses /\ item.kind = "slice") =>
            /\ out.status = "ok"
            /\ out.val.cls = a.cls
            /\ SansValues(out.val) = SansValues(a)
            /\ IsSubsequenceAt(out.val.values, a.values, SlicePositions(n, item.lo, item.hi))
        /\ (axres.op = "getitem" /\ a.cls \in OrdinalClasses /\ item.kind = "list"
                /\ \A k \in 1..Len(item.idx) : -n <= item.idx[k] /\ item.idx[k] < n) =>
            /\ out.status = "ok"
            /\ out.val.cls = a.cls
            /\ SansValues(out.val) = SansValues(a)
            /\ Len(out.val.values) = Len(item.idx)
            /\ \A k \in 1..Len(item.idx) : out.val.values[k] = a.values[Position(n, item.idx[k])]
        /\ (axres.op = "getitem" /\ a.cls \in OrdinalClasses /\ item.kind = "mask"
                /\ Len(item.mask) = n) =>
            /\ out.status = "ok"
            /\ out.val.cls = a.cls
            /\ SansValues(out.val) = SansValues(a)
            /\ IsSubsequenceAt(out.val.values, a.values, {k \in 1..n : item.mask[k]})
        /\ (axres.op = "getitem" /\ a.cls \in OrdinalClasses /\ out.status = "ok") =>
            out.ref = "new"

\* C9: the state part holds always, and no axis operation changes the axis
\* it is applied to.
C9_SelectorIndex == []C9_SelectorIndexInv /\ [][a' = a]_vars

C9_Witness ==
    /\ axres.op = "getitem"
    /\ axres.item = IndexList(<<1, 0>>)
    /\ a.cls = "ThicknessAxis"
    /\ a.values = <<1, 2>>
    /\ axres.out.status = "ok"
    /\ axres.out.val.values = <<2, 1>>

\* C10: concatenating onto a linear axis succeeds only if the axis allows
\* concatenation and the other axis equals it in every field, and then
\* returns the axis itself; otherwise it raises; a default FourierSpaceAxis
\* never concatenates, not even with an equal axis.
C10_LinearConcatenate ==
    (axres.op = "concatenate" /\ a.cls \in LinearClasses) =>
        LET b == axres.other
            out == axres.out
        IN  /\ out.status \in {"ok", "RuntimeError"}
            /\ out.status = "ok" =>
                  /\ a._concatenate
                  /\ \A f \in Fields(a.cls) : FieldOf(b, f) = FieldOf(a, f)
                  /\ out.ref = "self"
                  /\ out.val = a
            /\ (a._concatenate /\ b = a) => out.status = "ok"
            /\ (~a._concatenate \/ (b.cls = a.cls /\ b # a)) => out.status = "RuntimeError"
            /\ a = DefaultAxis("FourierSpaceAxis") => out.status = "RuntimeError"

C10_Witness ==
    /\ axres.op = "concatenate"
    /\ a.cls = "ScanAxis"
    /\ axres.other = a
    /\ axres.out.status = "ok"
    /\ axres.out.ref = "self"

====
